---- MODULE Spec2Model ----
(***************************************************************************)
(* A model of the protolanguage pipeline (src/app): Neighbor-Joining tree  *)
(* construction over a language-distance matrix (constructors/trees.py)    *)
(* and the post-order reconstruction of proto-languages                    *)
(* (constructors/languages.py, constructors/lexeme.py), over the Language, *)
(* Lexeme, Synonyms, Edge and Tree objects of src/app/models.              *)
(*                                                                         *)
(* Numbers: numpy float64 values are modelled as exact rationals           *)
(* <<numerator, denominator>> in lowest terms with a positive denominator. *)
(* Indices: Python's 0-based positions are written 1-based here.           *)
(* Objects: a Language or an Edge is its index in the heap sequences       *)
(* `lang` and `edge` (allocation order); None is 0.                        *)
(***************************************************************************)
EXTENDS Integers, Sequences, FiniteSets, TLC

\* ------------------------------------------------------------------ bounds
\* Largest number of input languages handed to construct_tree with a
\* symmetric matrix, and with an arbitrary (asymmetric) one.
MaxN == 3
MaxAsymN == 2
\* Largest entry of an input language-distance matrix (entries are 0..MaxDist).
MaxDist == 3

None == 0

\* --------------------------------------------------------------- rationals
Abs(x) == IF x < 0 THEN -x ELSE x

RECURSIVE GCD(_, _)
GCD(a, b) == IF b = 0 THEN a ELSE GCD(b, a % b)

\* p/q in lowest terms, q # 0
Rat(p, q) ==
  LET g == GCD(Abs(p), Abs(q))
      s == IF q < 0 THEN -1 ELSE 1
  IN  <<(s * p) \div g, (s * q) \div g>>

RInt(k) == <<k, 1>>
RZero == <<0, 1>>
\* float('nan'): every ordering test on it is false
NaN == <<0, 0>>
RAdd(a, b) == Rat(a[1] * b[2] + b[1] * a[2], a[2] * b[2])
RSub(a, b) == Rat(a[1] * b[2] - b[1] * a[2], a[2] * b[2])
RMulInt(a, k) == Rat(a[1] * k, a[2])
RDivInt(a, k) == Rat(a[1], a[2] * k)
RLt(a, b) == a[1] * b[2] < b[1] * a[2]
RGt(a, b) == RLt(b, a)

RECURSIVE RSumSeq(_)
RSumSeq(s) == IF s = <<>> THEN RZero ELSE RAdd(s[1], RSumSeq(Tail(s)))

\* ------------------------------------------------------- lists and dicts
\* del seq[k]
DelAt(seq, k) == [x \in 1..(Len(seq) - 1) |-> IF x < k THEN seq[x] ELSE seq[x + 1]]

EmptyDict == [x \in {} |-> None]
DictPut(f, k, v) == [x \in (DOMAIN f) \cup {k} |-> IF x = k THEN v ELSE f[x]]
DictDel(f, k) == [x \in (DOMAIN f) \ {k} |-> f[x]]

\* ------------------------------------------------------------ the objects
\* Edge.__init__
Edge(parent_language, child_language, distance) ==
  [parent_language |-> parent_language,
   child_language  |-> child_language,
   distance        |-> distance]

\* Language._redefine_lexemes_dict: later entries win a shared meaning
RECURSIVE LexemesDict(_, _)
LexemesDict(lexemes, k) ==
  IF k = 0 THEN EmptyDict
  ELSE DictPut(LexemesDict(lexemes, k - 1), lexemes[k].meaning, lexemes[k])

RECURSIVE LexemeIndexDict(_, _)
LexemeIndexDict(lexemes, k) ==
  IF k = 0 THEN EmptyDict
  ELSE DictPut(LexemeIndexDict(lexemes, k - 1), lexemes[k].meaning, k)

\* Lexeme.set_language_code / Synonyms.set_language_code
SetLanguageCode(entry, code) ==
  IF entry.cls = "Lexeme" THEN [entry EXCEPT !.language_code = code]
  ELSE [entry EXCEPT !.lexemes =
          [x \in 1..Len(entry.lexemes) |-> [entry.lexemes[x] EXCEPT !.language_code = code]]]

\* Language.__init__
Language(name, code, lexemes) ==
  LET own == [x \in 1..Len(lexemes) |-> SetLanguageCode(lexemes[x], code)]
  IN  [name              |-> name,
       code              |-> code,
       lexemes           |-> own,
       lexemes_dict      |-> LexemesDict(own, Len(own)),
       lexeme_index_dict |-> LexemeIndexDict(own, Len(own)),
       parent_edge       |-> None,
       child_edges       |-> <<>>]

\* Language.get_child_languages
GetChildLanguages(L, E, l) ==
  [x \in 1..Len(L[l].child_edges) |-> E[L[l].child_edges[x]].child_language]

\* Language.is_leaf
IsLeaf(L, l) == Len(L[l].child_edges) = 0

\* --------------------------------------------------------- construct_tree
RowSum(d, i) == RSumSeq(d[i])
ColSum(d, j) == RSumSeq([x \in 1..Len(d) |-> d[x][j]])

\* line 23-24: Q = d*(n-2) - column sums (as a row) - row sums (as a column),
\* then the diagonal is set to 0
QMatrix(d, n) ==
  [i \in 1..n |-> [j \in 1..n |->
     IF i = j THEN RZero
     ELSE RSub(RSub(RMulInt(d[i][j], n - 2), ColSum(d, j)), RowSum(d, i))]]

\* line 27: argmin over the row-major flattening of Q (a scan that keeps the
\* first minimum), unravelled to (row, column)
Unravel(n, k) == <<((k - 1) \div n) + 1, ((k - 1) % n) + 1>>

RECURSIVE ArgMinFrom(_, _, _, _, _)
ArgMinFrom(Q, n, k, best, best_val) ==
  IF k > n * n THEN best
  ELSE IF RLt(Q[Unravel(n, k)[1]][Unravel(n, k)[2]], best_val)
         THEN ArgMinFrom(Q, n, k + 1, k, Q[Unravel(n, k)[1]][Unravel(n, k)[2]])
         ELSE ArgMinFrom(Q, n, k + 1, best, best_val)

ArgMin(Q, n) == Unravel(n, ArgMinFrom(Q, n, 2, 1, Q[1][1]))

\* line 31
DistI(d, n, i, j) ==
  RAdd(RDivInt(d[i][j], 2),
       IF n # 2 THEN RDivInt(RSub(RowSum(d, i), RowSum(d, j)), 2 * (n - 2)) ELSE RZero)

\* A faulty variant of line 32: the second branch takes half of d[i, j]
\* whatever the first branch took.
DistJ_Half(d, n, i, j) == RDivInt(d[i][j], 2)

\* line 32
DistJ(d, n, i, j) == RSub(d[i][j], DistI(d, n, i, j))

\* line 58
DistsToIJ(d, n, i, j) ==
  [k \in 1..n |-> RDivInt(RSub(RAdd(d[i][k], d[j][k]), d[i][j]), 2)]

\* np.delete(a, (i, j)) on an axis of length len: the k-th position that is
\* kept (a repeated position is removed once)
Kept(k, i, j) ==
  LET lo == IF i < j THEN i ELSE j
      hi == IF i < j THEN j ELSE i
  IN  IF k < lo THEN k
      ELSE IF lo = hi \/ k + 1 < hi THEN k + 1
      ELSE k + 2

\* lines 61-71: d grows by the new node's row and column (its distances to
\* the others, 0 to itself), then loses the rows and the columns i and j
NextD(d, n, i, j) ==
  LET m == IF i = j THEN n ELSE n - 1
  IN  [r \in 1..m |-> [c \in 1..m |->
        IF Kept(r, i, j) <= n /\ Kept(c, i, j) <= n THEN d[Kept(r, i, j)][Kept(c, i, j)]
        ELSE IF Kept(r, i, j) <= n THEN DistsToIJ(d, n, i, j)[Kept(r, i, j)]
        ELSE IF Kept(c, i, j) <= n THEN DistsToIJ(d, n, i, j)[Kept(c, i, j)]
        ELSE RZero]]

\* lines 73-82: two del statements on a list, the larger position first when
\* i > j, otherwise position j and then position i
DelPair(seq, i, j) ==
  IF i > j THEN DelAt(DelAt(seq, i), j) ELSE DelAt(DelAt(seq, j), i)

\* Lines 30-84 of one iteration of the while loop, on the frame f of
\* construct_tree (f.L and f.E are the Language and Edge heaps), for the
\* selected pair (i, j) and its two branch lengths.
JoinAt(f, i, j, dist_i_ij, dist_j_ij) ==
  LET ij_name == f.language_codes[i] \o f.language_codes[j]
      ij_language == Len(f.L) + 1
      edge_ij_i == Len(f.E) + 1
      edge_ij_j == Len(f.E) + 2
      language_codes == Append(f.language_codes, ij_name)
      languages == Append(f.languages, ij_language)
  IN  [language_codes |-> DelPair(language_codes, i, j),
       languages      |-> DelPair(languages, i, j),
       n              |-> Len(language_codes) - 2,
       delta          |-> DictPut(DictPut(f.delta, <<f.language_codes[i], ij_name>>, dist_i_ij),
                                  <<f.language_codes[j], ij_name>>, dist_j_ij),
       d              |-> NextD(f.d, f.n, i, j),
       ij_language    |-> ij_language,
       L              |-> [k \in 1..(Len(f.L) + 1) |->
                            IF k = ij_language
                              THEN [Language(ij_name, ij_name, <<>>)
                                      EXCEPT !.child_edges = <<edge_ij_i, edge_ij_j>>]
                            ELSE IF k = f.languages[j]
                              THEN [f.L[k] EXCEPT !.parent_edge = edge_ij_j]
                            ELSE IF k = f.languages[i]
                              THEN [f.L[k] EXCEPT !.parent_edge = edge_ij_i]
                            ELSE f.L[k]],
       E              |-> f.E \o <<Edge(ij_language, f.languages[i], dist_i_ij),
                                   Edge(ij_language, f.languages[j], dist_j_ij)>>,
       i              |-> i,
       j              |-> j]

\* Lines 23-27 of one iteration: the pair selected from Q
SelectPair(f) == ArgMin(QMatrix(f.d, f.n), f.n)

JoinPair(f, p) ==
  JoinAt(f, p[1], p[2], DistI(f.d, f.n, p[1], p[2]), DistJ(f.d, f.n, p[1], p[2]))

\* One iteration of the while loop (lines 22-84)
JoinIteration(f) == JoinPair(f, SelectPair(f))

\* line 23: reshape(1, n) raises ValueError unless d has exactly n rows/columns
ReshapeFails(f) == Len(f.d) # f.n

\* -------------------------------------------------------------------- Tree
\* Tree._discover_descendants, as the sets it adds for the subtree of `root`
RECURSIVE Discover(_, _, _)
Discover(L, E, root) ==
  LET subs == [x \in 1..Len(L[root].child_edges) |->
                 LET ce == L[root].child_edges[x]
                     c  == E[ce].child_language
                     sub == Discover(L, E, c)
                 IN  [edges     |-> {ce} \cup sub.edges,
                      languages |-> {c} \cup sub.languages,
                      leaves    |-> sub.leaves \cup (IF IsLeaf(L, c) THEN {c} ELSE {})]]
  IN  [edges     |-> UNION {subs[x].edges : x \in DOMAIN subs},
       languages |-> UNION {subs[x].languages : x \in DOMAIN subs},
       leaves    |-> UNION {subs[x].leaves : x \in DOMAIN subs}]

\* No Tree (Python's None where a Tree is expected)
NoTree == [root |-> None, languages |-> {}, leaves |-> {}, edges |-> {}]

\* Tree.__init__
Tree(L, E, root_language) ==
  LET s == Discover(L, E, root_language)
  IN  [root |-> root_language, languages |-> s.languages,
       leaves |-> s.leaves, edges |-> s.edges]

\* ------------------------------------------------------------ NamedMatrix
\* NamedMatrix.__init__ with row names = column names, over the given items
\* and with the given inner matrix (lines 25-31)
IndexMap(names) ==
  [x \in {names[k] : k \in DOMAIN names} |->
     CHOOSE k \in DOMAIN names : names[k] = x /\ \A k2 \in DOMAIN names : k2 > k => names[k2] # x]

NamedMatrix(names, items, matrix) ==
  [column_names     |-> names,
   row_names        |-> names,
   row_index_map    |-> IndexMap(names),
   column_index_map |-> IndexMap(names),
   row_items        |-> items,
   column_items     |-> items,
   matrix           |-> matrix]

\* NamedMatrix.__getitem__
GetItem(m, a, b) == m.matrix[m.row_index_map[a]][m.column_index_map[b]]

\* ----------------------------------------------------- lexemes, synonyms
\* A phoneme is a positive number; the empty phoneme of data/phonemes.py is 0.
empty_phoneme == 0

\* ----------------------------------------------------------------- features
\* The feature table (data/features.py line 4 over features_info): code ->
\* index, category.  The empty feature has code "X" and index 0 (line 6).
empty_feature == "X"

FeatureCodes == <<"AL", "PA", "DE", "NE", "VE", "PZ", "VZ", "PL", "OP", "VO">>

FeatureIndex(code) ==
  IF code = empty_feature THEN 0
  ELSE CHOOSE k \in DOMAIN FeatureCodes : FeatureCodes[k] = code

FeatureCategory(code) ==
  CASE code \in {"AL", "PA", "DE", "NE", "VE"} -> "place"
    [] code \in {"PZ", "VZ"}                   -> "secondary_place"
    [] code \in {"PL", "OP"}                   -> "manner"
    [] code = "VO"                             -> "airflow"
    [] OTHER                                   -> ""

\* A Phoneme as a dictionary key is its feature set (Phoneme.__eq__, models/
\* phoneme.py lines 147-148): the number whose k-th bit says that the k-th
\* feature of FeatureCodes is present.  The empty phoneme is then 0.
RECURSIVE PhonemeOf(_)
PhonemeOf(features) ==
  IF features = {} THEN 0
  ELSE LET f == CHOOSE x \in features : TRUE
       IN  2 ^ (FeatureIndex(f) - 1) + PhonemeOf(features \ {f})

FeaturesOf(p) ==
  {FeatureCodes[k] : k \in {x \in DOMAIN FeatureCodes : (p \div (2 ^ (x - 1))) % 2 = 1}}

\* Phoneme.__sub__
PhonemeSub(ph1, ph2) == FeaturesOf(ph1) \ FeaturesOf(ph2)

\* list(set) of features, here in the order of Feature.index
RECURSIVE ListOf(_)
ListOf(set) ==
  IF set = {} THEN <<>>
  ELSE LET f == CHOOSE x \in set : \A y \in set : FeatureIndex(x) <= FeatureIndex(y)
       IN  <<f>> \o ListOf(set \ {f})

\* munkres.DISALLOWED: the cell that an assignment never uses
DISALLOWED == -1

\* A variant of Feature.distance_to that charges nothing for a pair the oracle
\* does not hold
distance_to_FreeWhenAbsent(afdm, self, other, default) ==
  IF <<self, other>> \in DOMAIN afdm THEN afdm[<<self, other>>] ELSE 0

\* Feature.distance_to (models/feature.py lines 116-119) over the oracle afdm
distance_to(afdm, self, other, default) ==
  IF <<self, other>> \in DOMAIN afdm THEN afdm[<<self, other>>] ELSE default

\* ------------------------------------------------------------------ Munkres
\* Munkres.compute: a minimum-cost perfect assignment of rows to columns that
\* uses no DISALLOWED cell; it raises when there is none.
Assignments(k) == {p \in [1..k -> 1..k] : \A a, b \in 1..k : p[a] = p[b] => a = b}

RECURSIVE SumSeq(_)
SumSeq(s) == IF s = <<>> THEN 0 ELSE s[1] + SumSeq(Tail(s))

AssignmentCost(matrix, p) == SumSeq([r \in 1..Len(matrix) |-> matrix[r][p[r]]])

Allowed(matrix) ==
  {p \in Assignments(Len(matrix)) : \A r \in 1..Len(matrix) : matrix[r][p[r]] # DISALLOWED}

MunkresCompute(matrix) ==
  LET ok == Allowed(matrix)
  IN  IF ok = {} THEN [raised |-> TRUE, indexes |-> <<>>]
      ELSE [raised  |-> FALSE,
            indexes |-> CHOOSE p \in ok :
                          \A q \in ok : AssignmentCost(matrix, p) <= AssignmentCost(matrix, q)]

\* ----------------------------------------------- calculate_phoneme_distance
Repeat(x, k) == [y \in 1..k |-> x]

\* A variant of line 13 that asks the oracle for the pair in the other order
CostMatrix_Swapped(ph1, ph2, afdm) ==
  LET set1  == PhonemeSub(ph1, ph2)
      set2  == PhonemeSub(ph2, ph1)
      list1 == ListOf(set1) \o Repeat(empty_feature, Cardinality(set2))
      list2 == ListOf(set2) \o Repeat(empty_feature, Cardinality(set1))
  IN  [r \in 1..Len(list1) |->
         [c \in 1..Len(list2) |-> distance_to(afdm, list2[c], list1[r], DISALLOWED)]]

\* lines 9-13: the padded lists and the cost matrix
CostMatrix(ph1, ph2, afdm) ==
  LET set1  == PhonemeSub(ph1, ph2)
      set2  == PhonemeSub(ph2, ph1)
      list1 == ListOf(set1) \o Repeat(empty_feature, Cardinality(set2))
      list2 == ListOf(set2) \o Repeat(empty_feature, Cardinality(set1))
  IN  [r \in 1..Len(list1) |->
         [c \in 1..Len(list2) |-> distance_to(afdm, list1[r], list2[c], DISALLOWED)]]

\* lines 6-15; the result is [raised, value]
calculate_phoneme_distance(ph1, ph2, afdm) ==
  IF ph1 = ph2 THEN [raised |-> FALSE, value |-> 0]
  ELSE LET matrix == CostMatrix(ph1, ph2, afdm)
           m      == MunkresCompute(matrix)
       IN  IF m.raised THEN [raised |-> TRUE, value |-> 0]
           ELSE [raised |-> FALSE, value |-> AssignmentCost(matrix, m.indexes)]

\* ------------------------------------------------- NamedMatrix, populated
\* lines 39-44: the outer list runs over the column items, the inner one over
\* the row items; function[<<a, b>>] is the populator's call function(a, b)
DefaultMatrix(function, row_items, column_items) ==
  [c \in 1..Len(column_items) |->
     [r \in 1..Len(row_items) |-> function[<<row_items[r], column_items[c]>>]]]

\* lines 36-37: the row items along the last axis are broadcast against the
\* column items along the first one; the result has one row per column item
BroadcastMatrix(function, row_items, column_items) ==
  LET shape == <<Len(column_items), Len(row_items)>>
  IN  [a \in 1..shape[1] |->
         [b \in 1..shape[2] |-> function[<<row_items[b], column_items[a]>>]]]

\* NamedMatrix.__init__ over a grid of calls that have already been made
\* (lines 25-44); row_items and column_items default to the names
PopulatedMatrix(column_names, row_names, grid) ==
  [column_names     |-> column_names,
   row_names        |-> row_names,
   row_index_map    |-> IndexMap(row_names),
   column_index_map |-> IndexMap(column_names),
   row_items        |-> row_names,
   column_items     |-> column_names,
   matrix           |-> grid]

\* Some call of the populator raised
GridRaised(grid) ==
  \E a \in DOMAIN grid : \E b \in DOMAIN grid[a] : grid[a][b].raised

GridValues(grid) == [a \in DOMAIN grid |-> [b \in DOMAIN grid[a] |-> grid[a][b].value]]

\* construct_phoneme_distance_matrix, lines 19-28, from the sorted list of the
\* phonemes of the languages; [raised, matrix]
construct_phoneme_distance_matrix(sorted_phonemes, afdm, vectorize) ==
  LET all_phonemes == Append(sorted_phonemes, empty_phoneme)
      items    == {all_phonemes[k] : k \in DOMAIN all_phonemes}
      function == [p \in items \X items |-> calculate_phoneme_distance(p[1], p[2], afdm)]
      grid == IF vectorize
                THEN BroadcastMatrix(function, all_phonemes, all_phonemes)
                ELSE DefaultMatrix(function, all_phonemes, all_phonemes)
  IN  IF GridRaised(grid) THEN [raised |-> TRUE, matrix |-> None]
      ELSE [raised |-> FALSE,
            matrix |-> PopulatedMatrix(all_phonemes, all_phonemes, GridValues(grid))]

\* Lexeme.__init__ (phonemes, meaning, language_code; name and representation
\* are functions of phonemes)
Lexeme(phonemes, meaning, language_code) ==
  [cls |-> "Lexeme", phonemes |-> phonemes, meaning |-> meaning,
   language_code |-> language_code]

\* Synonyms.__init__
Synonyms(lexemes) ==
  [cls |-> "Synonyms", meaning |-> lexemes[1].meaning, lexemes |-> lexemes]

\* isinstance(x, Synonyms)
IsSynonyms(x) == x.cls = "Synonyms"

\* Lexeme.__eq__ between two Lexemes: the same phonemes
LexemeEq(a, b) == a.phonemes = b.phonemes

\* Synonyms.__contains__
SynonymsContains(s, item) == \E x \in DOMAIN s.lexemes : LexemeEq(s.lexemes[x], item)

\* Synonyms.__add__
SynonymsAdd(a, b) == Synonyms(a.lexemes \o b.lexemes)

\* Language.__getitem__ with a str index is L.lexemes_dict[index]; a missing
\* key raises KeyError.
HasMeaning(l, meaning) == meaning \in DOMAIN l.lexemes_dict

\* Language.__and__
LanguageAnd(a, b) == (DOMAIN a.lexemes_dict) \cap (DOMAIN b.lexemes_dict)

\* A variant of Language.__setitem__ that appends whatever the index dict says
SetItem_Appending(l, index, item) ==
  [l EXCEPT !.lexemes = Append(l.lexemes, item),
            !.lexemes_dict = DictPut(l.lexemes_dict, item.meaning, item),
            !.lexeme_index_dict = DictPut(l.lexeme_index_dict, item.meaning,
                                          Len(l.lexemes) + 1)]

\* Language.__setitem__ with a str index (lines 139-151)
SetItem(l, index, item) ==
  LET at == IF index \in DOMAIN l.lexeme_index_dict
              THEN l.lexeme_index_dict[index] ELSE Len(l.lexemes) + 1
      dict == IF index \in DOMAIN l.lexemes_dict
                THEN DictDel(l.lexemes_dict, index) ELSE l.lexemes_dict
  IN  [l EXCEPT !.lexemes = IF at = Len(l.lexemes) + 1 THEN Append(l.lexemes, item)
                            ELSE [l.lexemes EXCEPT ![at] = item],
                !.lexemes_dict = DictPut(dict, item.meaning, item),
                !.lexeme_index_dict = DictPut(l.lexeme_index_dict, item.meaning, at)]

\* Language.__setitem__ with an int index (lines 136-137, 144-151); positions
\* count from 1 here
SetItemInt(l, index, item) ==
  LET meaning == l.lexemes[index].meaning
      dict == IF meaning \in DOMAIN l.lexemes_dict
                THEN DictDel(l.lexemes_dict, meaning) ELSE l.lexemes_dict
  IN  [l EXCEPT !.lexemes = [l.lexemes EXCEPT ![index] = item],
                !.lexemes_dict = DictPut(dict, item.meaning, item),
                !.lexeme_index_dict = DictPut(l.lexeme_index_dict, item.meaning, index)]

\* Language.__delitem__ (lines 153-158)
DelItem(l, index) ==
  LET meaning == l.lexemes[index].meaning
      rest    == DelAt(l.lexemes, index)
  IN  [l EXCEPT !.lexemes = rest,
                !.lexemes_dict = DictDel(l.lexemes_dict, meaning),
                !.lexeme_index_dict = LexemeIndexDict(rest, Len(rest))]

\* list.insert(index, item)
InsertAt(seq, k, x) == SubSeq(seq, 1, k - 1) \o <<x>> \o SubSeq(seq, k, Len(seq))

\* Language.insert (lines 180-183)
LanguageInsert(l, index, item) ==
  LET lexemes == InsertAt(l.lexemes, index, item)
  IN  [l EXCEPT !.lexemes = lexemes,
                !.lexemes_dict = LexemesDict(lexemes, Len(lexemes)),
                !.lexeme_index_dict = LexemeIndexDict(lexemes, Len(lexemes))]

\* Language.append (lines 185-188)
LanguageAppend(l, item) ==
  LET lexemes == Append(l.lexemes, item)
  IN  [l EXCEPT !.lexemes = lexemes,
                !.lexemes_dict = LexemesDict(lexemes, Len(lexemes)),
                !.lexeme_index_dict = LexemeIndexDict(lexemes, Len(lexemes))]

\* ------------------------------------------------ calculate_lexeme_distance
Min3(a, b, c) == IF a <= b /\ a <= c THEN a ELSE IF b <= c THEN b ELSE c

\* matrix[i, j] of lines 15-26, for the phoneme lists S and T (i, j from 0);
\* the entries of the phoneme distance matrix are whole numbers here
RECURSIVE AlignmentCell(_, _, _, _, _)
AlignmentCell(S, T, m, i, j) ==
  IF i = 0 /\ j = 0 THEN 0
  ELSE IF j = 0 THEN AlignmentCell(S, T, m, i - 1, 0) + GetItem(m, S[i], empty_phoneme)
  ELSE IF i = 0 THEN AlignmentCell(S, T, m, 0, j - 1) + GetItem(m, empty_phoneme, T[j])
  ELSE Min3(AlignmentCell(S, T, m, i - 1, j) + GetItem(m, S[i], empty_phoneme),
            AlignmentCell(S, T, m, i, j - 1) + GetItem(m, empty_phoneme, T[j]),
            AlignmentCell(S, T, m, i - 1, j - 1) + GetItem(m, S[i], T[j]))

\* line 27: a numpy float64 divided by the sum of the lengths; for two empty
\* lexemes this is 0.0 / 0, which numpy evaluates to nan
calculate_lexeme_distance(source_lexeme, target_lexeme, phoneme_distance_matrix) ==
  IF Len(source_lexeme.phonemes) + Len(target_lexeme.phonemes) = 0 THEN NaN
  ELSE Rat(AlignmentCell(source_lexeme.phonemes, target_lexeme.phonemes,
                         phoneme_distance_matrix,
                         Len(source_lexeme.phonemes), Len(target_lexeme.phonemes)),
           Len(source_lexeme.phonemes) + Len(target_lexeme.phonemes))

\* ------------------------------------------------------- reconstruct_lexeme
reconstruct_lexeme(lexeme_1, lexeme_2, distance_1, distance_2, phoneme_distance_matrix) ==
  Lexeme(lexeme_1.phonemes \o lexeme_2.phonemes, lexeme_1.meaning, lexeme_1.language_code)

\* ------------------------------------------------ set_lexeme_to_descendants
\* A variant of lines 69-70 without the isinstance test: a single Lexeme equal
\* to the synonym is replaced as well.
ShouldReplace_NoTypeTest(entry, synonym) ==
  IF IsSynonyms(entry) THEN SynonymsContains(entry, synonym) ELSE LexemeEq(entry, synonym)

\* lines 69-70
ShouldReplace(entry, synonym) == IsSynonyms(entry) /\ SynonymsContains(entry, synonym)

\* The heap L after set_lexeme_to_descendants(meaning, lexeme, synonym,
\* language); raised: language[meaning] raised KeyError on the way.
RECURSIVE set_lexeme_to_descendants(_, _, _, _, _, _)
RECURSIVE SetLexemeToChildren(_, _, _, _, _, _, _)
\* A variant of lines 69-70 that looks for the synonym in the entry of every
\* meaning of the language
set_lexeme_to_descendants_AnyMeaning(L, E, meaning, lexeme, synonym, language) ==
  IF ~HasMeaning(L[language], meaning) THEN [L |-> L, raised |-> TRUE]
  ELSE IF \E m \in DOMAIN L[language].lexemes_dict :
            ShouldReplace(L[language].lexemes_dict[m], synonym)
    THEN SetLexemeToChildren([L EXCEPT ![language] = SetItem(L[language], meaning, lexeme)],
                             E, meaning, lexeme, synonym,
                             GetChildLanguages(L, E, language), 1)
    ELSE [L |-> L, raised |-> FALSE]

set_lexeme_to_descendants(L, E, meaning, lexeme, synonym, language) ==
  IF ~HasMeaning(L[language], meaning) THEN [L |-> L, raised |-> TRUE]
  ELSE IF ShouldReplace(L[language].lexemes_dict[meaning], synonym)
    THEN SetLexemeToChildren([L EXCEPT ![language] = SetItem(L[language], meaning, lexeme)],
                             E, meaning, lexeme, synonym,
                             GetChildLanguages(L, E, language), 1)
    ELSE [L |-> L, raised |-> FALSE]

\* lines 72-73, from the k-th child on
SetLexemeToChildren(L, E, meaning, lexeme, synonym, children, k) ==
  IF k > Len(children) THEN [L |-> L, raised |-> FALSE]
  ELSE LET r == set_lexeme_to_descendants(L, E, meaning, lexeme, synonym, children[k])
       IN  IF r.raised THEN r
           ELSE SetLexemeToChildren(r.L, E, meaning, lexeme, synonym, children, k + 1)

\* ----------------------------------------------------- reconstruct_language
\* The default of the threshold parameter (2.0)
Threshold == 2

\* lines 94-97
AsSynonyms(entry) == IF IsSynonyms(entry) THEN entry ELSE Synonyms(<<entry>>)

\* line 101: the pair min_word_pair starts from
NoLexeme == Lexeme(<<>>, "", "")

\* lines 102-107 from the k-th pair on (lexeme_1 outer, lexeme_2 inner); a pair
\* replaces the best one only when strictly closer
RECURSIVE MinWordPairFrom(_, _, _, _, _)
MinWordPairFrom(synonyms_1, synonyms_2, pdm, k, best) ==
  IF k > Len(synonyms_1.lexemes) * Len(synonyms_2.lexemes) THEN best
  ELSE LET lexeme_1 == synonyms_1.lexemes[((k - 1) \div Len(synonyms_2.lexemes)) + 1]
           lexeme_2 == synonyms_2.lexemes[((k - 1) % Len(synonyms_2.lexemes)) + 1]
       IN  MinWordPairFrom(synonyms_1, synonyms_2, pdm, k + 1,
             IF RLt(calculate_lexeme_distance(lexeme_1, lexeme_2, pdm), best.min_word_distance)
               THEN [min_word_distance |-> calculate_lexeme_distance(lexeme_1, lexeme_2, pdm),
                     min_word_pair     |-> <<lexeme_1, lexeme_2>>]
               ELSE best)

\* lines 100-107: the first pair always replaces the initial None
MinWordPair(synonyms_1, synonyms_2, pdm) ==
  MinWordPairFrom(synonyms_1, synonyms_2, pdm, 2,
    [min_word_distance |-> calculate_lexeme_distance(synonyms_1.lexemes[1],
                                                     synonyms_2.lexemes[1], pdm),
     min_word_pair     |-> <<synonyms_1.lexemes[1], synonyms_2.lexemes[1]>>])

\* A variant of line 109 that also takes the union at equality
ExceedsThreshold_AtEquality(min_word_distance, language_distance, threshold) ==
  ~RLt(min_word_distance, RMulInt(language_distance, threshold))

\* line 109
ExceedsThreshold(min_word_distance, language_distance, threshold) ==
  RGt(min_word_distance, RMulInt(language_distance, threshold))

\* line 85
LanguageDistance(L, E, root) ==
  RSumSeq([x \in 1..Len(L[root].child_edges) |-> E[L[root].child_edges[x]].distance])

\* lines 124-125: one call per child, with the child's member of the pair
PropagateToChildren(L, E, key_word, proto_lexeme, min_word_pair, children) ==
  LET first == set_lexeme_to_descendants(L, E, key_word, proto_lexeme,
                                         min_word_pair[1], children[1])
  IN  IF first.raised THEN first
      ELSE set_lexeme_to_descendants(first.L, E, key_word, proto_lexeme,
                                     min_word_pair[2], children[2])

\* The locals of one pass of the for loop of line 88 that did not reach
\* lines 100-107
NoPair == [min_word_distance |-> RZero, min_word_pair |-> <<NoLexeme, NoLexeme>>]

\* One pass of the for loop of line 88 (lines 89-130) for key_word: the heap
\* after it, whether it raised, the branch it took and its locals
KeyWordPass(L, E, pdm, root, language_distance, threshold, key_word) ==
  LET children == GetChildLanguages(L, E, root)
      child_0 == L[children[1]]
      child_1 == L[children[2]]
  IN  IF HasMeaning(child_0, key_word) /\ HasMeaning(child_1, key_word)
        THEN LET synonyms_1 == AsSynonyms(child_0.lexemes_dict[key_word])
                 synonyms_2 == AsSynonyms(child_1.lexemes_dict[key_word])
                 best == MinWordPair(synonyms_1, synonyms_2, pdm)
             IN  IF ExceedsThreshold(best.min_word_distance, language_distance, threshold)
                   THEN [L |-> [L EXCEPT ![root] =
                                  SetItem(L[root], key_word, SynonymsAdd(synonyms_1, synonyms_2))],
                         raised |-> FALSE, branch |-> "union", best |-> best,
                         proto_lexeme |-> NoLexeme]
                   ELSE LET proto_lexeme ==
                              reconstruct_lexeme(best.min_word_pair[1], best.min_word_pair[2],
                                                 E[child_0.parent_edge].distance,
                                                 E[child_1.parent_edge].distance, pdm)
                            down == PropagateToChildren(
                                      [L EXCEPT ![root] = SetItem(L[root], key_word, proto_lexeme)],
                                      E, key_word, proto_lexeme, best.min_word_pair, children)
                        IN  [L |-> down.L, raised |-> down.raised, branch |-> "merge",
                             best |-> best, proto_lexeme |-> proto_lexeme]
      ELSE IF HasMeaning(child_0, key_word)
        THEN [L |-> [L EXCEPT ![root] = SetItem(L[root], key_word, child_0.lexemes_dict[key_word])],
              raised |-> FALSE, branch |-> "copy_0", best |-> NoPair, proto_lexeme |-> NoLexeme]
      ELSE IF HasMeaning(child_1, key_word)
        THEN [L |-> [L EXCEPT ![root] = SetItem(L[root], key_word, child_1.lexemes_dict[key_word])],
              raised |-> FALSE, branch |-> "copy_1", best |-> NoPair, proto_lexeme |-> NoLexeme]
      ELSE [L |-> L, raised |-> FALSE, branch |-> "none", best |-> NoPair,
            proto_lexeme |-> NoLexeme]

\* The frame of a call reconstruct_language(root, ...): entered, in the
\* recursion loop of lines 80-82 at child position k
CallFrame(root) ==
  [root |-> root, stage |-> "recursion", k |-> 1, language_distance |-> RZero,
   todo |-> {}, key_word |-> "", branch |-> "none", best |-> NoPair,
   proto_lexeme |-> NoLexeme]

\* A variant of lines 80-82 that never recurses
NextEmptyChild_Never(L, children, k) == 0

\* lines 80-81: the first child position from k on whose language has no
\* lexemes (0: none)
RECURSIVE NextEmptyChild(_, _, _)
NextEmptyChild(L, children, k) ==
  IF k > Len(children) THEN 0
  ELSE IF Len(L[children[k]].lexemes) = 0 THEN k
  ELSE NextEmptyChild(L, children, k + 1)

\* construct_tree run to its end from the frame f: the last frame, and whether
\* line 23 raised
RECURSIVE RunConstructTree(_)
RunConstructTree(f) ==
  IF f.n > 1
    THEN IF ReshapeFails(f) THEN [frame |-> f, raised |-> TRUE]
         ELSE RunConstructTree(JoinIteration(f))
    ELSE [frame |-> f, raised |-> FALSE]

\* ------------------------------------------------------------------ Phoneme
\* data/pickles.py line 12
feature_categories == <<"place", "secondary_place", "manner", "secondary_manner", "airflow">>

\* sorted() of category names: the order of Python strings
CategoryRank(category) ==
  CASE category = ""                 -> 0
    [] category = "airflow"          -> 1
    [] category = "manner"           -> 2
    [] category = "place"            -> 3
    [] category = "secondary_manner" -> 4
    [] category = "secondary_place"  -> 5

\* sorted(feature.category for feature in features), line 124
RECURSIVE SortedCategories(_)
SortedCategories(features) ==
  IF features = {} THEN <<>>
  ELSE LET f == CHOOSE x \in features :
                  \A y \in features :
                    \/ CategoryRank(FeatureCategory(x)) < CategoryRank(FeatureCategory(y))
                    \/ /\ FeatureCategory(x) = FeatureCategory(y)
                       /\ FeatureIndex(x) <= FeatureIndex(y)
       IN  <<FeatureCategory(f)>> \o SortedCategories(features \ {f})

\* [ft for ft in self.features if ft.category == category], line 129; the
\* iteration order of the set is taken to be the order of Feature.index
SimilarFeatures(features, category) ==
  ListOf({f \in features : FeatureCategory(f) = category})

RECURSIVE Flatten(_)
Flatten(lists) == IF lists = <<>> THEN <<>> ELSE lists[1] \o Flatten(Tail(lists))

\* Phoneme._redefine_name_and_category_attributes, lines 127-137: the lists
\* places, manners, ...; the first feature of each (or the empty feature); the
\* name, which joins the feature names category by category
Redefine(ph) ==
  LET lists == [c \in DOMAIN feature_categories |->
                  SimilarFeatures(ph.features, feature_categories[c])]
  IN  [ph EXCEPT !.lists   = [c \in {feature_categories[k] : k \in DOMAIN feature_categories} |->
                                SimilarFeatures(ph.features, c)],
                 !.primary = [c \in {feature_categories[k] : k \in DOMAIN feature_categories} |->
                                IF SimilarFeatures(ph.features, c) = <<>> THEN empty_feature
                                ELSE SimilarFeatures(ph.features, c)[1]],
                 !.name    = Flatten(lists)]

\* Phoneme.__init__, lines 121-125
Phoneme(features, representation) ==
  Redefine([features       |-> features,
            representation |-> representation,
            categories     |-> SortedCategories(features),
            lists          |-> <<>>,
            primary        |-> <<>>,
            name           |-> <<>>])

\* Phoneme.add, lines 195-199
PhonemeAdd(ph, feature, redefine) ==
  LET p == [ph EXCEPT !.features = @ \cup {feature}]
  IN  IF redefine THEN Redefine(p) ELSE p

\* Phoneme.remove, lines 201-206
PhonemeRemove(ph, feature, redefine) ==
  LET p == [ph EXCEPT !.features = @ \ {feature}]
  IN  IF redefine THEN Redefine(p) ELSE p

\* Phoneme.replace, lines 208-213
PhonemeReplace(ph, feature1, feature2, redefine) ==
  LET p == IF feature1 \in ph.features
             THEN PhonemeAdd(PhonemeRemove(ph, feature1, FALSE), feature2, FALSE)
             ELSE ph
  IN  IF redefine THEN Redefine(p) ELSE p

\* Phoneme.set_place, lines 215-221
RECURSIVE RemoveEach(_, _)
RemoveEach(ph, features) ==
  IF features = <<>> THEN ph
  ELSE RemoveEach(PhonemeRemove(ph, features[1], TRUE), Tail(features))

PhonemeSetPlace(ph, feature, redefine) ==
  LET p == PhonemeAdd(RemoveEach(ph, ph.lists["place"]), feature, TRUE)
  IN  IF redefine THEN Redefine(p) ELSE p

\* The rule tables ipa_rules and the vowel manners of feature_subsets
\* (data/pickles.py lines 9-10): code -> code; a code without a rule is a
\* KeyError
AdvanceRules == [c \in {"AL", "NE", "VE"} |-> IF c = "AL" THEN "DE" ELSE "PA"]
LowerRules == [c \in {"PL"} |-> "OP"]
UpperRules == [c \in {"OP"} |-> "PL"]
DentalizeRules == [c \in {"AL", "PA"} |-> "DE"]
VowelManners == {"OP"}

\* Phoneme.is_vowel, lines 259-260
IsVowel(ph) == (VowelManners \cap ph.features) # {}

\* One pass of the loop of Phoneme.advance, lines 225-234, on [ph, raised]
AdvanceOne(r, place_feature) ==
  IF r.raised THEN r
  ELSE IF place_feature = "PA"
    THEN [ph |-> PhonemeAdd(r.ph, "AL", FALSE), raised |-> FALSE]
  ELSE IF place_feature = "NE" /\ IsVowel(r.ph)
    THEN [ph |-> PhonemeAdd(r.ph, "PZ", FALSE), raised |-> FALSE]
  ELSE IF place_feature = "VE" /\ IsVowel(r.ph)
    THEN [ph |-> PhonemeReplace(PhonemeAdd(r.ph, "VZ", FALSE), place_feature, "NE", FALSE),
          raised |-> FALSE]
  ELSE IF place_feature \in DOMAIN AdvanceRules
    THEN [ph |-> PhonemeReplace(r.ph, place_feature, AdvanceRules[place_feature], FALSE),
          raised |-> FALSE]
  ELSE [ph |-> r.ph, raised |-> TRUE]

\* One pass of the loops of lower, upper and dentalize (lines 239-241,
\* 246-248, 253-255) with the rule table of the mutator
RuleOne(r, rules, feature) ==
  IF r.raised THEN r
  ELSE IF feature \in DOMAIN rules
    THEN [ph |-> PhonemeReplace(r.ph, feature, rules[feature], FALSE), raised |-> FALSE]
  ELSE [ph |-> r.ph, raised |-> TRUE]

RECURSIVE AdvanceEach(_, _)
AdvanceEach(r, features) ==
  IF features = <<>> THEN r ELSE AdvanceEach(AdvanceOne(r, features[1]), Tail(features))

RECURSIVE RuleEach(_, _, _)
RuleEach(r, rules, features) ==
  IF features = <<>> THEN r ELSE RuleEach(RuleOne(r, rules, features[1]), rules, Tail(features))

\* The end of a rule-driven mutator: the recomputation is skipped when the
\* loop raised
Finish(r, redefine) ==
  IF r.raised \/ ~redefine THEN r ELSE [ph |-> Redefine(r.ph), raised |-> FALSE]

\* Phoneme.advance, lines 223-236; [ph, raised]
PhonemeAdvance(ph, redefine) ==
  Finish(AdvanceEach([ph |-> ph, raised |-> FALSE], ph.lists["place"]), redefine)

\* Phoneme.lower, lines 238-243
PhonemeLower(ph, redefine) ==
  Finish(RuleEach([ph |-> ph, raised |-> FALSE], LowerRules, ph.lists["manner"]), redefine)

\* Phoneme.upper, lines 245-250
PhonemeUpper(ph, redefine) ==
  Finish(RuleEach([ph |-> ph, raised |-> FALSE], UpperRules, ph.lists["manner"]), redefine)

\* Phoneme.dentalize, lines 252-257
PhonemeDentalize(ph, redefine) ==
  Finish(RuleEach([ph |-> ph, raised |-> FALSE], DentalizeRules, ph.lists["place"]), redefine)

\* --------------------------------------------------------------- IPA parser
\* The tables of data/pickles.py lines 3-6: the replacement of a non-IPA
\* character, the letters with their feature codes, the modifiers with their
\* actions (mutator name, argument feature code), and the ignored symbols
replace_table == [c \in {"T"} |-> "t"]

letters ==
  [c \in {"t", "k", "d", "tk"} |->
     CASE c = "t"  -> <<"AL">>
       [] c = "k"  -> <<"PA">>
       [] c = "d"  -> <<"DE">>
       [] c = "tk" -> <<"AL", "PA">>]

modifiers == [c \in {"+"} |-> [actions |-> << <<"advance", "">>, <<"add", "VO">> >>]]

ignore == {"-"}

\* parser.py lines 8-9
replace_non_ipa(string) ==
  [k \in DOMAIN string |->
     IF string[k] \in DOMAIN replace_table THEN replace_table[string[k]] ELSE string[k]]

\* One pass of the loop of group_with_modifiers, lines 15-23, on
\* [raised, symbols]
GroupOne(r, char) ==
  IF r.raised THEN r
  ELSE IF Len(r.symbols) > 0 /\ char \in DOMAIN modifiers
    THEN [raised  |-> FALSE,
          symbols |-> [r.symbols EXCEPT ![Len(r.symbols)].modifiers = @ \cup {char}]]
  ELSE IF char \in DOMAIN letters
    THEN [raised  |-> FALSE,
          symbols |-> Append(r.symbols, [letter |-> char, modifiers |-> {}])]
  ELSE IF char \in ignore
    THEN r
  ELSE [raised |-> TRUE, symbols |-> r.symbols]

RECURSIVE GroupEach(_, _)
GroupEach(r, chars) ==
  IF chars = <<>> THEN r ELSE GroupEach(GroupOne(r, chars[1]), Tail(chars))

\* group_with_modifiers, lines 12-24; raised is the ValueError of line 23
group_with_modifiers(chars) == GroupEach([raised |-> FALSE, symbols |-> <<>>], chars)

\* group_single_phoneme_symbols, lines 27-41, from position k (1-based)
RECURSIVE GatherFrom(_, _)
GatherFrom(symbols, k) ==
  IF k > Len(symbols) THEN <<>>
  ELSE IF k < Len(symbols) /\ (symbols[k].letter \o symbols[k + 1].letter) \in DOMAIN letters
    THEN <<[letter    |-> symbols[k].letter \o symbols[k + 1].letter,
            modifiers |-> symbols[k].modifiers \cup symbols[k + 1].modifiers]>>
         \o GatherFrom(symbols, k + 2)
  ELSE <<symbols[k]>> \o GatherFrom(symbols, k + 1)

group_single_phoneme_symbols(symbols) == GatherFrom(symbols, 1)

\* getattr(phoneme, action)(arg_feature) or getattr(phoneme, action)(),
\* lines 53-57; [ph, raised], raised being a KeyError
ApplyAction(r, action) ==
  IF r.raised THEN r
  ELSE CASE action[1] = "add"       -> [ph |-> PhonemeAdd(r.ph, action[2], TRUE), raised |-> FALSE]
         [] action[1] = "remove"    -> [ph |-> PhonemeRemove(r.ph, action[2], TRUE), raised |-> FALSE]
         [] action[1] = "set_place" -> [ph |-> PhonemeSetPlace(r.ph, action[2], TRUE), raised |-> FALSE]
         [] action[1] = "advance"   -> PhonemeAdvance(r.ph, TRUE)
         [] action[1] = "lower"     -> PhonemeLower(r.ph, TRUE)
         [] action[1] = "upper"     -> PhonemeUpper(r.ph, TRUE)
         [] action[1] = "dentalize" -> PhonemeDentalize(r.ph, TRUE)

RECURSIVE ApplyActions(_, _)
ApplyActions(r, actions) ==
  IF actions = <<>> THEN r ELSE ApplyActions(ApplyAction(r, actions[1]), Tail(actions))

\* The loop over symbol['modifiers'], lines 49-57
RECURSIVE ApplyModifiers(_, _)
ApplyModifiers(r, mods) ==
  IF mods = {} THEN r
  ELSE LET modifier == CHOOSE x \in mods : TRUE
       IN  ApplyModifiers(ApplyActions(r, modifiers[modifier].actions), mods \ {modifier})

RECURSIVE JoinChars(_)
JoinChars(mods) ==
  IF mods = {} THEN ""
  ELSE LET x == CHOOSE y \in mods : TRUE IN x \o JoinChars(mods \ {x})

\* symbol_to_phoneme, lines 44-58; [ph, raised]: a letter without an entry,
\* or a mutator that misses a rule, raises KeyError
symbol_to_phoneme(symbol) ==
  IF symbol.letter \notin DOMAIN letters
    THEN [ph |-> Phoneme({}, ""), raised |-> TRUE]
  ELSE LET feature_codes  == letters[symbol.letter]
           representation == symbol.letter \o JoinChars(symbol.modifiers)
           features       == {feature_codes[k] : k \in DOMAIN feature_codes}
       IN  ApplyModifiers([ph |-> Phoneme(features, representation), raised |-> FALSE],
                          symbol.modifiers)

\* What ipa_string_to_lexeme returns when line 67 catches a KeyError
NoneLexeme == [cls |-> "NoneType"]

\* ipa_string_to_lexeme, lines 61-71; [raised, lexeme]: raised is the
\* ValueError of group_with_modifiers, which is not caught here.  The
\* phonemes of the Lexeme are kept as their feature sets.
ipa_string_to_lexeme(ipa_string, meaning, language_code) ==
  LET ipa_chars   == replace_non_ipa(ipa_string)
      ipa_symbols == group_with_modifiers(ipa_chars)
  IN  IF ipa_symbols.raised THEN [raised |-> TRUE, lexeme |-> NoneLexeme]
      ELSE LET ipa_gathered_symbols == group_single_phoneme_symbols(ipa_symbols.symbols)
               converted == [k \in DOMAIN ipa_gathered_symbols |->
                               symbol_to_phoneme(ipa_gathered_symbols[k])]
           IN  IF \E k \in DOMAIN converted : converted[k].raised
                 THEN [raised |-> FALSE, lexeme |-> NoneLexeme]
                 ELSE [raised |-> FALSE,
                       lexeme |-> Lexeme([k \in DOMAIN converted |->
                                            PhonemeOf(converted[k].ph.features)],
                                         meaning, language_code)]

\* ------------------------------------------------------ construct_languages
\* A catalogue row after lines 19-24: Code (<<>> when null), Language, the
\* count column '#', and one IPA string per meaning column ('' when empty)
NullCode == <<>>

\* The meaning columns of the catalogue, in column order
MeaningColumns == <<"one", "two">>

\* lines 31-40 for the meaning columns from k on: the lexemes of one row; a
\* ValueError skips the cell, a None returned after a KeyError is appended
RECURSIVE RowLexemes(_, _)
RowLexemes(row, k) ==
  IF k > Len(MeaningColumns) THEN <<>>
  ELSE LET meaning == MeaningColumns[k]
           word    == row.cells[meaning]
           parsed  == ipa_string_to_lexeme(word, meaning, row.Code)
       IN  IF Len(word) = 0 \/ parsed.raised
             THEN RowLexemes(row, k + 1)
             ELSE <<parsed.lexeme>> \o RowLexemes(row, k + 1)

\* lines 19-22: the rows with a Code and with '#' > min_words
RECURSIVE KeptRows(_, _)
KeptRows(rows, min_words) ==
  IF rows = <<>> THEN <<>>
  ELSE IF rows[1].Code # NullCode /\ rows[1].count > min_words
    THEN <<rows[1]>> \o KeptRows(Tail(rows), min_words)
  ELSE KeptRows(Tail(rows), min_words)

\* Language.__init__ calls set_language_code on every lexeme (models/
\* language.py lines 109-110): None has no such method, AttributeError
HasNone(lexemes) == \E k \in DOMAIN lexemes : lexemes[k].cls = "NoneType"

\* construct_languages, lines 18-42; [raised, languages]
construct_languages(rows, min_words) ==
  LET kept    == KeptRows(rows, min_words)
      lexemes == [k \in DOMAIN kept |-> RowLexemes(kept[k], 1)]
  IN  IF \E k \in DOMAIN kept : HasNone(lexemes[k])
        THEN [raised |-> TRUE, languages |-> <<>>]
        ELSE [raised    |-> FALSE,
              languages |-> [k \in DOMAIN kept |->
                               Language(kept[k].Language, kept[k].Code, lexemes[k])]]

\* ------------------------------------------------ calculate_language_distance
\* A variant of line 10 that gives 0 for an empty list
Mean_ZeroWhenEmpty(dists) ==
  IF dists = <<>> THEN [raised |-> FALSE, value |-> RZero]
  ELSE [raised |-> FALSE, value |-> RDivInt(RSumSeq(dists), Len(dists))]

\* line 10: sum(dists) / len(dists); the ints 0 / 0 raise ZeroDivisionError
Mean(dists) ==
  IF dists = <<>> THEN [raised |-> TRUE, value |-> RZero]
  ELSE [raised |-> FALSE, value |-> RDivInt(RSumSeq(dists), Len(dists))]

RECURSIVE SetToSeq(_)
SetToSeq(S) ==
  IF S = {} THEN <<>>
  ELSE LET x == CHOOSE y \in S : TRUE IN <<x>> \o SetToSeq(S \ {x})

\* operations/language.py lines 4-10; [raised, value]
calculate_language_distance(lang_1, lang_2, phoneme_distance_matrix) ==
  LET words == SetToSeq(LanguageAnd(lang_1, lang_2))
  IN  Mean([k \in DOMAIN words |->
              calculate_lexeme_distance(lang_1.lexemes_dict[words[k]],
                                        lang_2.lexemes_dict[words[k]],
                                        phoneme_distance_matrix)])

\* --------------------------------------- construct_language_distance_matrix
\* constructors/languages.py lines 46-65 along the default path, for the
\* Language objects `items` of the heap L; [raised, matrix]
construct_language_distance_matrix(L, items, phoneme_distance_matrix) ==
  LET language_codes == [k \in DOMAIN items |-> L[items[k]].code]
      function == [p \in (DOMAIN L) \X (DOMAIN L) |->
                     calculate_language_distance(L[p[1]], L[p[2]], phoneme_distance_matrix)]
      grid == DefaultMatrix(function, items, items)
  IN  IF GridRaised(grid) THEN [raised |-> TRUE, matrix |-> None]
      ELSE [raised |-> FALSE,
            matrix |-> NamedMatrix(language_codes, items, GridValues(grid))]

\* ------------------------------- the phonemes of construct_phoneme_distance_matrix
\* constructors/phonemes.py line 19: the phonemes of all lexemes of all
\* languages, sorted (Phoneme.__lt__ compares hashes; here the smaller number
\* comes first)
PhonemesOfLanguages(L) ==
  UNION {UNION {{L[l].lexemes[x].phonemes[y] : y \in DOMAIN L[l].lexemes[x].phonemes} :
                  x \in DOMAIN L[l].lexemes} : l \in DOMAIN L}

RECURSIVE Sorted(_)
Sorted(S) ==
  IF S = {} THEN <<>>
  ELSE LET x == CHOOSE y \in S : \A z \in S : y <= z IN <<x>> \o Sorted(S \ {x})

\* ------------------------------------------------------------------- state
VARIABLES
  pc,              \* where the pipeline is: "loop", "done", "error", ...
  ldm,             \* the NamedMatrix given to construct_tree
  language_codes,  \* construct_tree's working list of codes
  languages,       \* construct_tree's working list of Language objects
  n,               \* construct_tree's n
  delta,           \* construct_tree's delta dict
  d,               \* construct_tree's working distance matrix
  ij_language,     \* construct_tree's last created parent (None before any)
  i, j,            \* construct_tree's last selected pair (None before any)
  lang,            \* heap of Language objects
  edge,            \* heap of Edge objects
  tree,            \* the Tree returned by construct_tree (NoTree: none)
  pdm,             \* the phoneme distance matrix (a NamedMatrix)
  stack,           \* the frames of the calls of reconstruct_language in progress
  afdm,            \* the feature distance oracle: (code, code) -> distance
  catalogue,       \* the rows of the catalogue read by construct_languages
  phoneme,         \* a Phoneme object under mutation
  call             \* the last call of a distance function: fn, args, result

vars == <<pc, ldm, language_codes, languages, n, delta, d, ij_language, i, j,
          lang, edge, tree, pdm, stack, afdm, catalogue, phoneme, call>>

\* What construct_tree and reconstruct_language never touch
dvars == <<afdm, catalogue, phoneme, call>>

NoCall == [fn |-> "", args |-> <<>>, result |-> None]

\* The part of the state that a run starting at construct_tree does not use
NotInUse ==
  /\ afdm = EmptyDict
  /\ catalogue = <<>>
  /\ phoneme = None
  /\ call = NoCall

\* A leaf's code: the one-element sequence <<k>>; a parent's code is the
\* concatenation of its children's codes (line 30, str + '.' + str).
LeafCode(k) == <<k>>

OffDiagonal(N) == {p \in (1..N) \X (1..N) : p[1] # p[2]}

\* The N x N matrix with zero diagonal whose other entries are given by off
MatrixOf(N, off) ==
  [r \in 1..N |-> [c \in 1..N |-> IF r = c THEN RZero ELSE RInt(off[<<r, c>>])]]

\* The NamedMatrix over the languages 1..N that construct_tree is given
LanguageMatrix(N, matrix) ==
  NamedMatrix([k \in 1..N |-> LeafCode(k)], [k \in 1..N |-> k], matrix)

\* lines 14-19 of construct_tree
Frame0(m, L, E) ==
  [language_codes |-> m.column_names,
   languages      |-> m.column_items,
   n              |-> Len(m.column_names),
   delta          |-> EmptyDict,
   d              |-> m.matrix,
   ij_language    |-> None,
   L              |-> L,
   E              |-> E,
   i              |-> None,
   j              |-> None]

CurFrame ==
  [language_codes |-> language_codes, languages |-> languages, n |-> n,
   delta |-> delta, d |-> d, ij_language |-> ij_language, L |-> lang, E |-> edge,
   i |-> i, j |-> j]

SetFrame(f) ==
  /\ language_codes' = f.language_codes
  /\ languages' = f.languages
  /\ n' = f.n
  /\ delta' = f.delta
  /\ d' = f.d
  /\ ij_language' = f.ij_language
  /\ lang' = f.L
  /\ edge' = f.E
  /\ i' = f.i
  /\ j' = f.j

\* The input matrices: zero diagonal, entries 0..MaxDist; symmetric ones over
\* up to MaxN languages, arbitrary ones over up to MaxAsymN languages.
UpperOf(N) == {p \in OffDiagonal(N) : p[1] < p[2]}

InputMatrices(N) ==
  {MatrixOf(N, [p \in OffDiagonal(N) |-> IF p[1] < p[2] THEN up[p] ELSE up[<<p[2], p[1]>>]]) :
     up \in [UpperOf(N) -> 0..MaxDist]}
  \cup (IF N <= MaxAsymN
          THEN {MatrixOf(N, off) : off \in [OffDiagonal(N) -> 0..MaxDist]}
          ELSE {})

\* The phoneme distance matrix: the phonemes 1 and 2, sorted, then the empty
\* phoneme (constructors/phonemes.py lines 19-28); rows are the source.
PhonemeDistances ==
  NamedMatrix(<<1, 2, empty_phoneme>>, <<1, 2, empty_phoneme>>,
              <<<<0, 4, 3>>,
                <<2, 0, 3>>,
                <<5, 5, 0>>>>)

\* construct_tree is entered with a matrix over N = 0..MaxN languages, each a
\* Language without lexemes here (construct_tree never reads them).
Init ==
  \E N \in 0..MaxN :
    \E matrix \in InputMatrices(N) :
      LET m == LanguageMatrix(N, matrix)
          L == [k \in 1..N |-> Language(LeafCode(k), LeafCode(k), <<>>)]
          f == Frame0(m, L, <<>>)
      IN  /\ pc = "loop"
          /\ ldm = m
          /\ language_codes = f.language_codes
          /\ languages = f.languages
          /\ n = f.n
          /\ delta = f.delta
          /\ d = f.d
          /\ ij_language = f.ij_language
          /\ i = f.i
          /\ j = f.j
          /\ lang = f.L
          /\ edge = f.E
          /\ tree = NoTree
          /\ pdm = PhonemeDistances
          /\ stack = <<>>
          /\ NotInUse

\* One pass of the while loop, lines 21-84
JoinStep ==
  /\ pc = "loop"
  /\ n > 1
  /\ ~ReshapeFails(CurFrame)
  /\ \E f \in {JoinIteration(CurFrame)} : SetFrame(f)
  /\ UNCHANGED <<pc, ldm, tree, pdm, stack, dvars>>

\* The loop is entered with a matrix that is not n x n: line 23 raises
JoinRaise ==
  /\ pc = "loop"
  /\ n > 1
  /\ ReshapeFails(CurFrame)
  /\ pc' = "error"
  /\ UNCHANGED <<ldm, language_codes, languages, n, delta, d, ij_language, i, j,
                 lang, edge, tree, pdm, stack, dvars>>

\* line 86
ReturnTree ==
  /\ pc = "loop"
  /\ ~(n > 1)
  /\ tree' = IF ij_language # None THEN Tree(lang, edge, ij_language) ELSE NoTree
  /\ pc' = "done"
  /\ UNCHANGED <<ldm, language_codes, languages, n, delta, d, ij_language, i, j,
                 lang, edge, pdm, stack, dvars>>

Next == JoinStep \/ JoinRaise \/ ReturnTree

Spec == Init /\ [][Next]_vars

\* ----------------------------------------------- reconstruct_protolanguages
\* Largest number of leaves of a tree handed to reconstruct_protolanguages,
\* and largest number of leaves whose vocabularies are drawn from the richer
\* choice (two meanings, absent entries).
RecMaxN == 5
MaxRichN == 3
\* Largest entry of the matrices these trees are built from
RecMaxHeight == 2

\* The matrices the trees come from: language k > 1 lies at distance h[k] from
\* every language before it, with h non-decreasing
Heights(N) ==
  {h \in [2..N -> 0..RecMaxHeight] : \A k \in 2..(N - 1) : h[k] <= h[k + 1]}

HeightMatrix(N, h) ==
  [r \in 1..N |-> [c \in 1..N |->
     IF r = c THEN RZero ELSE RInt(h[IF r > c THEN r ELSE c])]]

\* The entries a leaf may hold at the meaning "one": nothing, a single Lexeme,
\* or (in at most one leaf of a tree) a Synonyms bundle
Word(phonemes, meaning) == Lexeme(phonemes, meaning, "")
SingleWords == {<<1>>, <<2>>}
Bundles == {<< <<1>>, <<2>> >>, << <<1, 1>> >>, << <<1, 2>> >>}
BundleEntry(b) == <<Synonyms([x \in 1..Len(b) |-> Word(b[x], "one")])>>

PlainOne(N) ==
  [1..N -> {<<>>} \cup {<<Word(w, "one")>> : w \in SingleWords}]
FullOne(N) ==
  [1..N -> {<<Word(w, "one")>> : w \in SingleWords}]
WithBundle(plain, N) ==
  plain \cup {[v EXCEPT ![l] = BundleEntry(b)] : v \in plain, l \in 1..N, b \in Bundles}

\* The entry of leaf l at the meaning "two" when the leaves 1..upto hold one
TwoEntry(l, upto) ==
  IF l <= upto THEN <<Word(<<((l - 1) % 2) + 1>>, "two")>> ELSE <<>>

\* The lexeme lists of the N leaves
Vocabularies(N) ==
  IF N <= MaxRichN
    THEN {[l \in 1..N |-> one[l] \o TwoEntry(l, upto)] :
            one \in WithBundle(PlainOne(N), N), upto \in 0..N}
    ELSE WithBundle(FullOne(N), N)

\* reconstruct_protolanguages is entered (main.py lines 15-19) with the tree
\* construct_tree returned for the leaves and with the phoneme distance matrix
InitRec ==
  \E N \in 2..RecMaxN :
    \E h \in Heights(N) :
      \E r \in {RunConstructTree(
                  Frame0(LanguageMatrix(N, HeightMatrix(N, h)),
                         [k \in 1..N |-> Language(LeafCode(k), LeafCode(k), <<>>)], <<>>))} :
        /\ ~r.raised
        /\ \E vocabulary \in Vocabularies(N) :
             /\ lang = [k \in 1..Len(r.frame.L) |->
                          IF k <= N
                            THEN [Language(LeafCode(k), LeafCode(k), vocabulary[k])
                                    EXCEPT !.parent_edge = r.frame.L[k].parent_edge]
                            ELSE r.frame.L[k]]
             /\ ldm = LanguageMatrix(N, HeightMatrix(N, h))
             /\ language_codes = r.frame.language_codes
             /\ languages = r.frame.languages
             /\ n = r.frame.n
             /\ delta = r.frame.delta
             /\ d = r.frame.d
             /\ ij_language = r.frame.ij_language
             /\ i = r.frame.i
             /\ j = r.frame.j
             /\ edge = r.frame.E
             /\ tree = Tree(r.frame.L, r.frame.E, r.frame.ij_language)
             /\ pdm = PhonemeDistances
             /\ stack = <<CallFrame(r.frame.ij_language)>>
             /\ pc = "reconstruct"
             /\ NotInUse

Top == stack[Len(stack)]
SetTop(frame) == [stack EXCEPT ![Len(stack)] = frame]
TopChildren == GetChildLanguages(lang, edge, Top.root)

njvars == <<ldm, language_codes, languages, n, delta, d, ij_language, i, j, edge, tree, pdm,
            dvars>>

\* lines 80-82: the next child without lexemes is reconstructed first
ReconstructRecurse ==
  /\ pc = "reconstruct"
  /\ Top.stage = "recursion"
  /\ NextEmptyChild(lang, TopChildren, Top.k) # 0
  /\ LET c == NextEmptyChild(lang, TopChildren, Top.k)
     IN  stack' = Append(SetTop([Top EXCEPT !.k = c + 1]), CallFrame(TopChildren[c]))
  /\ UNCHANGED <<pc, lang, njvars>>

\* lines 85-88: no child is left to reconstruct; the language distance and the
\* set of shared meanings the for loop goes through
ReconstructBeginLoop ==
  /\ pc = "reconstruct"
  /\ Top.stage = "recursion"
  /\ NextEmptyChild(lang, TopChildren, Top.k) = 0
  /\ Len(TopChildren) >= 2
  /\ stack' = SetTop([Top EXCEPT !.stage = "loop",
                                 !.k = Len(TopChildren) + 1,
                                 !.language_distance = LanguageDistance(lang, edge, Top.root),
                                 !.todo = LanguageAnd(lang[TopChildren[1]], lang[TopChildren[2]])])
  /\ UNCHANGED <<pc, lang, njvars>>

\* line 88 on a language without children: children[0] raises IndexError
ReconstructIndexError ==
  /\ pc = "reconstruct"
  /\ Top.stage = "recursion"
  /\ NextEmptyChild(lang, TopChildren, Top.k) = 0
  /\ Len(TopChildren) < 2
  /\ pc' = "error"
  /\ UNCHANGED <<stack, lang, njvars>>

\* lines 88-130: one pass of the for loop, for any meaning the set still holds
\* (a set of str is iterated in no fixed order)
ReconstructKeyWord ==
  /\ pc = "reconstruct"
  /\ Top.stage = "loop"
  /\ \E key_word \in Top.todo :
       \E r \in {KeyWordPass(lang, edge, pdm, Top.root, Top.language_distance,
                             Threshold, key_word)} :
         /\ lang' = r.L
         /\ pc' = IF r.raised THEN "error" ELSE pc
         /\ stack' = SetTop([Top EXCEPT !.todo = Top.todo \ {key_word},
                                        !.key_word = key_word,
                                        !.branch = r.branch,
                                        !.best = r.best,
                                        !.proto_lexeme = r.proto_lexeme])
  /\ UNCHANGED njvars

\* the for loop is over: the call returns (to line 82 of its caller, or to
\* reconstruct_protolanguages, lines 135-136)
ReconstructReturn ==
  /\ pc = "reconstruct"
  /\ Top.stage = "loop"
  /\ Top.todo = {}
  /\ stack' = SubSeq(stack, 1, Len(stack) - 1)
  /\ pc' = IF Len(stack) = 1 THEN "reconstructed" ELSE pc
  /\ UNCHANGED <<lang, njvars>>

NextRec ==
  \/ ReconstructRecurse
  \/ ReconstructBeginLoop
  \/ ReconstructIndexError
  \/ ReconstructKeyWord
  \/ ReconstructReturn

SpecRec == InitRec /\ [][NextRec]_vars

\* ------------------------------------------------ claims on construct_tree
\* The number of languages construct_tree was given
NInput == Len(ldm.column_names)
InputLanguages == {ldm.column_items[k] : k \in 1..NInput}

\* The Languages reachable from l over child edges, l included
RECURSIVE Reachable(_)
Reachable(l) ==
  {l} \cup UNION {Reachable(edge[lang[l].child_edges[x]].child_language) :
                    x \in DOMAIN lang[l].child_edges}

\* The child-edge slots <<parent, position>> of the whole heap that point to l
SlotsTo(l) ==
  {s \in (1..Len(lang)) \X (1..2) :
     /\ s[2] \in DOMAIN lang[s[1]].child_edges
     /\ edge[lang[s[1]].child_edges[s[2]]].child_language = l}

Returned == pc = "done"
Ended == pc \in {"done", "error"}

\* C1: construct_tree on n >= 2 input languages returns a rooted tree whose
\* nodes have zero or two children, whose leaves are exactly the n input
\* languages, each hanging in exactly one place, with exactly n-1 internal nodes.
C1_BinaryTreeOverInputs ==
  (Ended /\ NInput >= 2) =>
    /\ Returned
    /\ tree # NoTree
    /\ LET nodes == Reachable(tree.root)
           leaves == {l \in nodes : IsLeaf(lang, l)}
       IN  /\ \A l \in nodes : Len(lang[l].child_edges) \in {0, 2}
           /\ leaves = InputLanguages
           /\ \A l \in leaves : Cardinality(SlotsTo(l)) = 1
           /\ Cardinality(nodes \ leaves) = NInput - 1

\* C2: after construct_tree every Language other than the returned root has a
\* parent_edge, is the child_language of exactly one child-edge slot of
\* exactly one parent, and that slot holds the very Edge that is its
\* parent_edge, whose parent_language is that parent.
C2_OneParentEdgeSharedWithParent ==
  (Returned /\ tree # NoTree) =>
    \A l \in (1..Len(lang)) \ {tree.root} :
      /\ lang[l].parent_edge # None
      /\ Cardinality(SlotsTo(l)) = 1
      /\ \A s \in SlotsTo(l) :
           /\ lang[s[1]].child_edges[s[2]] = lang[l].parent_edge
           /\ edge[lang[l].parent_edge].parent_language = s[1]

\* C3: at every join the two new branch lengths add up to d[i, j] of the
\* working matrix the join started from (exact arithmetic), the two new edges
\* leading from the new parent to the working entries i and j.
C3_BranchLengthsSumToDistance ==
  [][Len(edge') = Len(edge) + 2 =>
       /\ RAdd(edge'[Len(edge) + 1].distance, edge'[Len(edge) + 2].distance) = d[i'][j']
       /\ edge'[Len(edge) + 1].child_language = languages[i']
       /\ edge'[Len(edge) + 2].child_language = languages[j']
       /\ edge'[Len(edge) + 1].parent_language = ij_language'
       /\ edge'[Len(edge) + 2].parent_language = ij_language']_vars

\* A join of three languages has produced two different non-zero branch lengths.
C3_Witness ==
  /\ NInput = 3
  /\ Len(edge) >= 2
  /\ edge[1].distance # edge[2].distance
  /\ RGt(edge[1].distance, RZero)
  /\ RGt(edge[2].distance, RZero)

\* The input is three languages a, b, c with d(a,b) = 0 in both directions and
\* d(a,c) = d(c,a) = d(b,c) = d(c,b) > 0
TwoTwinsAndOne(a, b, c) ==
  /\ NInput = 3
  /\ {a, b, c} = {1, 2, 3}
  /\ ldm.matrix[a][b] = RZero /\ ldm.matrix[b][a] = RZero
  /\ RGt(ldm.matrix[a][c], RZero)
  /\ \A p \in {<<a, c>>, <<c, a>>, <<b, c>>, <<c, b>>} :
       ldm.matrix[p[1]][p[2]] = ldm.matrix[a][c]

ChildSet(l) == {edge[lang[l].child_edges[x]].child_language : x \in DOMAIN lang[l].child_edges}

\* The returned tree is ((a,b),c)
TopologyABthenC(a, b, c) ==
  /\ Returned
  /\ tree # NoTree
  /\ Len(lang[tree.root].child_edges) = 2
  /\ \E v \in ChildSet(tree.root) :
       /\ ChildSet(tree.root) = {v, c}
       /\ v # c
       /\ Len(lang[v].child_edges) = 2
       /\ ChildSet(v) = {a, b}

\* C9: three languages a, b, c with d(a,b) = 0 and d(a,c) = d(b,c) > 0, in any
\* order of rows, give the tree ((a,b),c).
C9_TwinsJoinedFirst ==
  \A a, b, c \in 1..3 :
    (Ended /\ TwoTwinsAndOne(a, b, c)) => TopologyABthenC(a, b, c)

\* C10: two languages at distance 0 in both directions give a root with two
\* child edges of length 0 whose children are the two input languages.
C10_TwoIdenticalLanguages ==
  (Ended /\ NInput = 2 /\ ldm.matrix[1][2] = RZero /\ ldm.matrix[2][1] = RZero) =>
    /\ Returned
    /\ tree # NoTree
    /\ Len(lang[tree.root].child_edges) = 2
    /\ \A x \in 1..2 : edge[lang[tree.root].child_edges[x]].distance = RZero
    /\ ChildSet(tree.root) = {1, 2}

\* ------------------------------------------ claims on reconstruct_language
\* A step that is one pass of the for loop of line 88, in the call on top
KeyWordStep ==
  /\ pc = "reconstruct"
  /\ stack # <<>>
  /\ Top.stage = "loop"
  /\ Len(stack') = Len(stack)
  /\ stack'[Len(stack)].todo # Top.todo

\* The meaning, the selected pair and the proto-lexeme of that pass
PassWord == stack'[Len(stack)].key_word
PassPair == stack'[Len(stack)].best.min_word_pair
PassProto == stack'[Len(stack)].proto_lexeme
PassMerges == stack'[Len(stack)].branch = "merge"

Meanings(l) == DOMAIN lang[l].lexemes_dict
EntryAt(l, m) == lang[l].lexemes_dict[m]
Child(r, k) == edge[lang[r].child_edges[k]].child_language

\* C4: once reconstruct_language has returned, every internal node holds every
\* meaning of either child, and a meaning of exactly one child with that
\* child's entry.
C4_UnionOfMeaningsKept ==
  pc = "reconstructed" =>
    \A r \in Reachable(tree.root) :
      Len(lang[r].child_edges) = 2 =>
        \A m \in Meanings(Child(r, 1)) \cup Meanings(Child(r, 2)) :
          /\ m \in Meanings(r)
          /\ \A k \in 1..2 :
               (m \in Meanings(Child(r, k)) /\ m \notin Meanings(Child(r, 3 - k)))
                 => EntryAt(r, m) = EntryAt(Child(r, k), m)

\* The least of a non-empty set of rationals
LeastOf(D) == CHOOSE x \in D : \A y \in D : ~RLt(y, x)

\* delta*: the least lexeme distance over all pairs (first child's bundle,
\* second child's bundle) at m, a single Lexeme counting as a bundle of one
DeltaStar(r, m) ==
  LET S1 == AsSynonyms(EntryAt(Child(r, 1), m)).lexemes
      S2 == AsSynonyms(EntryAt(Child(r, 2), m)).lexemes
  IN  LeastOf({calculate_lexeme_distance(S1[a], S2[b], pdm) :
                 a \in DOMAIN S1, b \in DOMAIN S2})

BranchSum(r) ==
  RAdd(edge[lang[r].child_edges[1]].distance, edge[lang[r].child_edges[2]].distance)

\* C5: in a pass for a meaning m both children hold, r[m] becomes the bundle
\* S1 + S2 exactly when delta* > branch_sum * 2, and otherwise (equality
\* included) a single Lexeme, the proto-lexeme of the pass.
C5_UnionIffAboveThreshold ==
  [][(KeyWordStep /\ PassWord \in Meanings(Child(Top.root, 1)) \cap Meanings(Child(Top.root, 2)))
       => IF RGt(DeltaStar(Top.root, PassWord), RMulInt(BranchSum(Top.root), 2))
            THEN lang'[Top.root].lexemes_dict[PassWord] =
                   Synonyms(AsSynonyms(EntryAt(Child(Top.root, 1), PassWord)).lexemes
                            \o AsSynonyms(EntryAt(Child(Top.root, 2), PassWord)).lexemes)
            ELSE /\ lang'[Top.root].lexemes_dict[PassWord].cls = "Lexeme"
                 /\ lang'[Top.root].lexemes_dict[PassWord] = PassProto]_vars

\* A pass has merged at equality: the least distance is exactly twice a
\* non-zero branch sum.
C5_Witness ==
  /\ pc = "reconstruct"
  /\ stack # <<>>
  /\ Top.branch = "merge"
  /\ RGt(Top.language_distance, RZero)
  /\ Top.best.min_word_distance = RMulInt(Top.language_distance, 2)
  /\ EntryAt(Top.root, Top.key_word).cls = "Lexeme"

\* C6: a pass for the meaning m leaves every Language whose entry at m was a
\* single Lexeme exactly as it was, and leaves every entry at another meaning,
\* of every Language, as it was.
C6_PropagationFrame ==
  [][KeyWordStep =>
       \A l \in 1..Len(lang) :
         /\ (PassWord \in Meanings(l) /\ ~IsSynonyms(EntryAt(l, PassWord)))
              => lang'[l] = lang[l]
         /\ \A m \in Meanings(l) \ {PassWord} :
              /\ m \in DOMAIN lang'[l].lexemes_dict
              /\ lang'[l].lexemes_dict[m] = EntryAt(l, m)
              /\ lang'[l].lexeme_index_dict[m] = lang[l].lexeme_index_dict[m]
              /\ lang'[l].lexemes[lang[l].lexeme_index_dict[m]] = EntryAt(l, m)]_vars

\* A merge for "one" has rewritten one child (its entry is now the
\* proto-lexeme) that also holds "two", next to a child with a single Lexeme.
C6_Witness ==
  /\ pc = "reconstruct"
  /\ stack # <<>>
  /\ Top.branch = "merge"
  /\ Top.key_word = "one"
  /\ \E k \in 1..2 :
       /\ EntryAt(Child(Top.root, k), "one") = Top.proto_lexeme
       /\ "two" \in Meanings(Child(Top.root, k))
       /\ ~IsSynonyms(EntryAt(Child(Top.root, 3 - k), "one"))
       /\ EntryAt(Child(Top.root, 3 - k), "one") # Top.proto_lexeme

\* C7: when a pass merges, every descendant of the k-th child (the child
\* included) whose entry at m was a Synonyms bundle containing the k-th
\* member of the selected pair holds the proto-lexeme at m after the pass.
C7_EveryCarrierReplaced ==
  [][(KeyWordStep /\ PassMerges) =>
       \A k \in 1..2 :
         \A w \in Reachable(Child(Top.root, k)) :
           (/\ PassWord \in Meanings(w)
            /\ IsSynonyms(EntryAt(w, PassWord))
            /\ SynonymsContains(EntryAt(w, PassWord), PassPair[k]))
             => lang'[w].lexemes_dict[PassWord] = PassProto]_vars

\* C8: when the selected pair is two equal lexemes w, the parent's entry at m
\* has the phonemes of w, and a child whose bundle contained w ends with a
\* single Lexeme with the phonemes of w.
C8_EqualPairGivesTheWord ==
  [][(KeyWordStep /\ PassMerges /\ LexemeEq(PassPair[1], PassPair[2])) =>
       /\ lang'[Top.root].lexemes_dict[PassWord].phonemes = PassPair[1].phonemes
       /\ \A k \in 1..2 :
            (/\ IsSynonyms(EntryAt(Child(Top.root, k), PassWord))
             /\ SynonymsContains(EntryAt(Child(Top.root, k), PassWord), PassPair[k]))
              => /\ lang'[Child(Top.root, k)].lexemes_dict[PassWord].cls = "Lexeme"
                 /\ lang'[Child(Top.root, k)].lexemes_dict[PassWord].phonemes
                      = PassPair[1].phonemes]_vars

\* ================================================= the distance functions
\* Largest distance of the feature oracle, longest lexeme handed to
\* calculate_lexeme_distance
MaxFeatureDist == 3
MaxLexLen == 2

\* The oracles (asymmetric_feature_distance_map, data/pickles.py line 14) over
\* the features AL and PA and the empty feature: the two substitutions cost
\* 1..MaxFeatureDist each, independently; a feature against the empty feature
\* is absent, 2 or MaxFeatureDist; the empty feature against a feature is
\* absent or MaxFeatureDist; the empty feature against itself is absent or 0.
Absent == DISALLOWED

OracleOf(t) == [p \in {q \in DOMAIN t : t[q] # Absent} |-> t[p]]

Oracles ==
  {OracleOf([p \in {<<"AL", "PA">>, <<"PA", "AL">>, <<"AL", "X">>, <<"PA", "X">>,
                    <<"X", "AL">>, <<"X", "PA">>, <<"X", "X">>} |->
               CASE p = <<"AL", "PA">> -> s1
                 [] p = <<"PA", "AL">> -> s2
                 [] p = <<"AL", "X">>  -> d1
                 [] p = <<"PA", "X">>  -> d2
                 [] p = <<"X", "AL">>  -> i1
                 [] p = <<"X", "PA">>  -> i2
                 [] OTHER              -> xx]) :
     s1 \in 1..MaxFeatureDist, s2 \in 1..MaxFeatureDist,
     d1 \in {Absent, 2, MaxFeatureDist}, d2 \in {Absent, 2, MaxFeatureDist},
     i1 \in {Absent, MaxFeatureDist}, i2 \in {Absent, MaxFeatureDist},
     xx \in {Absent, 0}}

\* The phonemes over AL and PA: none, AL, PA, both
TwoFeaturePhonemes == {PhonemeOf(fs) : fs \in SUBSET {"AL", "PA"}}

\* The phonemes found in the languages, sorted (constructors/phonemes.py line 19)
SortedPhonemes == <<PhonemeOf({"AL"}), PhonemeOf({"PA"})>>

\* The lexemes over these phonemes, up to MaxLexLen phonemes long
RECURSIVE SeqsUpTo(_, _)
SeqsUpTo(S, k) ==
  IF k = 0 THEN {<<>>}
  ELSE LET shorter == SeqsUpTo(S, k - 1)
       IN  shorter \cup {Append(s, x) : s \in shorter, x \in S}

TestLexemes == {Lexeme(s, "one", "") : s \in SeqsUpTo({PhonemeOf({"AL"}), PhonemeOf({"PA"})}, MaxLexLen)}

\* The construct_tree variables of a run that has not reached construct_tree
NoTreeYet ==
  /\ ldm = LanguageMatrix(0, <<>>)
  /\ language_codes = <<>>
  /\ languages = <<>>
  /\ n = 0
  /\ delta = EmptyDict
  /\ d = <<>>
  /\ ij_language = None
  /\ i = None
  /\ j = None
  /\ lang = <<>>
  /\ edge = <<>>
  /\ tree = NoTree
  /\ stack = <<>>

tvars == <<ldm, language_codes, languages, n, delta, d, ij_language, i, j, lang, edge,
           tree, stack>>

InitPdm ==
  /\ pc = "phonemes"
  /\ afdm \in Oracles
  /\ pdm = None
  /\ catalogue = <<>>
  /\ phoneme = None
  /\ call = NoCall
  /\ NoTreeYet

\* A call of calculate_phoneme_distance on two phonemes
CallPhonemeDistance ==
  /\ pc = "phonemes"
  /\ \E ph1 \in TwoFeaturePhonemes, ph2 \in TwoFeaturePhonemes :
       call' = [fn     |-> "calculate_phoneme_distance",
                args   |-> <<ph1, ph2>>,
                result |-> calculate_phoneme_distance(ph1, ph2, afdm)]
  /\ pc' = "phoneme_distance"
  /\ UNCHANGED <<afdm, pdm, catalogue, phoneme, tvars>>

\* construct_phoneme_distance_matrix along the default path; an assignment
\* that cannot be solved ends the run
ConstructPdmDefault ==
  /\ pc = "phonemes"
  /\ \E r \in {construct_phoneme_distance_matrix(SortedPhonemes, afdm, FALSE)} :
       IF r.raised
         THEN pc' = "error" /\ pdm' = pdm
         ELSE pc' = "pdm" /\ pdm' = r.matrix
  /\ UNCHANGED <<afdm, catalogue, phoneme, call, tvars>>

\* construct_phoneme_distance_matrix along the vectorized path
ConstructPdmVectorized ==
  /\ pc = "phonemes"
  /\ \E r \in {construct_phoneme_distance_matrix(SortedPhonemes, afdm, TRUE)} :
       IF r.raised
         THEN pc' = "error" /\ pdm' = pdm
         ELSE pc' = "pdm" /\ pdm' = r.matrix
  /\ UNCHANGED <<afdm, catalogue, phoneme, call, tvars>>

\* A call of calculate_lexeme_distance with the matrix built
CallLexemeDistance ==
  /\ pc = "pdm"
  /\ \E source_lexeme \in TestLexemes, target_lexeme \in TestLexemes :
       call' = [fn     |-> "calculate_lexeme_distance",
                args   |-> <<source_lexeme, target_lexeme>>,
                result |-> calculate_lexeme_distance(source_lexeme, target_lexeme, pdm)]
  /\ pc' = "lexeme_distance"
  /\ UNCHANGED <<afdm, pdm, catalogue, phoneme, tvars>>

NextPdm ==
  \/ CallPhonemeDistance
  \/ ConstructPdmDefault
  \/ ConstructPdmVectorized
  \/ CallLexemeDistance

SpecPdm == InitPdm /\ [][NextPdm]_vars

\* ----------------------------------------------------------- C11 .. C14
LastCallIs(fn) == call.fn = fn

\* PhonemeDistance(a, b), as the oracle gives it
PhonemeDistance(a, b) == calculate_phoneme_distance(a, b, afdm).value

\* The Needleman-Wunsch table M[r, c] for S and T: deleting S[r] costs
\* PhonemeDistance(S[r], empty), inserting T[c] costs PhonemeDistance(empty,
\* T[c]), substituting costs PhonemeDistance(S[r], T[c])
RECURSIVE NeedlemanWunsch(_, _, _, _)
NeedlemanWunsch(S, T, r, c) ==
  IF r = 0 /\ c = 0 THEN 0
  ELSE IF c = 0 THEN NeedlemanWunsch(S, T, r - 1, 0) + PhonemeDistance(S[r], empty_phoneme)
  ELSE IF r = 0 THEN NeedlemanWunsch(S, T, 0, c - 1) + PhonemeDistance(empty_phoneme, T[c])
  ELSE Min3(NeedlemanWunsch(S, T, r - 1, c) + PhonemeDistance(S[r], empty_phoneme),
            NeedlemanWunsch(S, T, r, c - 1) + PhonemeDistance(empty_phoneme, T[c]),
            NeedlemanWunsch(S, T, r - 1, c - 1) + PhonemeDistance(S[r], T[c]))

\* C11: with the matrix built by construct_phoneme_distance_matrix and
\* |S| + |T| >= 1, calculate_lexeme_distance(S, T, D) is M[m, n] / (m + n) for
\* the Needleman-Wunsch table M whose costs are the phoneme distances taken in
\* the order (source, empty), (empty, target), (source, target).
C11_LexemeDistanceIsNeedlemanWunsch ==
  LastCallIs("calculate_lexeme_distance") =>
    LET S == call.args[1].phonemes
        T == call.args[2].phonemes
    IN  Len(S) + Len(T) >= 1 =>
          call.result = Rat(NeedlemanWunsch(S, T, Len(S), Len(T)), Len(S) + Len(T))

\* The row item and the column item that belong to a key
RowItem(m, key) == m.row_items[m.row_index_map[key]]
ColumnItem(m, key) == m.column_items[m.column_index_map[key]]

\* C12: in a NamedMatrix built with a populator f, along the default and
\* along the vectorized path, the lookup [row_key, col_key] is f(row item of
\* row_key, column item of col_key, *args); here f is
\* calculate_phoneme_distance, which is not symmetric.
C12_LookupIsPopulatorOfRowAndColumn ==
  pc = "pdm" =>
    \A row_key \in DOMAIN pdm.row_index_map :
      \A col_key \in DOMAIN pdm.column_index_map :
        GetItem(pdm, row_key, col_key) =
          calculate_phoneme_distance(RowItem(pdm, row_key), ColumnItem(pdm, col_key), afdm).value

\* The features of p all have an oracle entry against the empty feature
AllAgainstEmpty(p) == \A f \in FeaturesOf(p) : <<f, empty_feature>> \in DOMAIN afdm

RECURSIVE SumAgainstEmpty(_)
SumAgainstEmpty(fs) ==
  IF fs = {} THEN 0
  ELSE LET f == CHOOSE x \in fs : TRUE
       IN  afdm[<<f, empty_feature>>] + SumAgainstEmpty(fs \ {f})

\* C13: calculate_phoneme_distance(p, p) = 0, and for a non-empty p whose
\* features all have an oracle entry against the empty feature,
\* calculate_phoneme_distance(p, empty_phoneme) is the sum of d(f, X) over the
\* features f of p.
C13_PhonemeDistanceToSelfAndToEmpty ==
  LastCallIs("calculate_phoneme_distance") =>
    LET ph1 == call.args[1]
        ph2 == call.args[2]
    IN  /\ ph1 = ph2 => call.result = [raised |-> FALSE, value |-> 0]
        /\ (ph1 # empty_phoneme /\ ph2 = empty_phoneme /\ AllAgainstEmpty(ph1)) =>
             call.result = [raised |-> FALSE, value |-> SumAgainstEmpty(FeaturesOf(ph1))]

\* A phoneme with two features has been measured against the empty phoneme,
\* the two features at different distances from the empty feature
C13_Witness ==
  /\ LastCallIs("calculate_phoneme_distance")
  /\ Cardinality(FeaturesOf(call.args[1])) = 2
  /\ call.args[2] = empty_phoneme
  /\ AllAgainstEmpty(call.args[1])
  /\ afdm[<<"AL", empty_feature>>] # afdm[<<"PA", empty_feature>>]
  /\ ~call.result.raised
  /\ call.result.value = afdm[<<"AL", empty_feature>>] + afdm[<<"PA", empty_feature>>]

\* Every entry of m is >= 0 and every phoneme is at distance 0 from itself
NonNegativeZeroDiagonal(m) ==
  \A a \in DOMAIN m.row_index_map :
    /\ GetItem(m, a, a) = 0
    /\ \A b \in DOMAIN m.column_index_map : GetItem(m, a, b) >= 0

\* C14: for every lexeme w and every phoneme distance matrix D with entries
\* >= 0 and D[p, p] = 0, calculate_lexeme_distance(w, w, D) is 0.
C14_LexemeDistanceToSelfIsZero ==
  (LastCallIs("calculate_lexeme_distance") /\ NonNegativeZeroDiagonal(pdm)
     /\ call.args[1] = call.args[2]) =>
    call.result = RZero

\* ================================================================ Phoneme
\* The phonemes a run starts from: Phoneme(features) with at most one feature
StartFeatures == {{}} \cup {{FeatureCodes[k]} : k \in DOMAIN FeatureCodes}

\* The features handed to add, remove, replace and set_place
MutatorArguments == {"AL", "VE", "OP", "VO"}

InitPhoneme ==
  /\ pc = "phoneme"
  /\ \E features \in StartFeatures : phoneme = Phoneme(features, "")
  /\ afdm = EmptyDict
  /\ pdm = None
  /\ catalogue = <<>>
  /\ call = NoCall
  /\ NoTreeYet

ovars == <<afdm, pdm, catalogue, call, tvars>>

\* A rule-driven mutator has returned or has raised KeyError
Mutated(r) ==
  /\ phoneme' = r.ph
  /\ pc' = IF r.raised THEN "error" ELSE pc

add ==
  /\ pc = "phoneme"
  /\ \E feature \in MutatorArguments :
       /\ phoneme' = PhonemeAdd(phoneme, feature, TRUE)
  /\ UNCHANGED <<pc, ovars>>

remove ==
  /\ pc = "phoneme"
  /\ \E feature \in MutatorArguments :
       /\ phoneme' = PhonemeRemove(phoneme, feature, TRUE)
  /\ UNCHANGED <<pc, ovars>>

replace ==
  /\ pc = "phoneme"
  /\ \E feature1 \in MutatorArguments, feature2 \in MutatorArguments :
       /\ phoneme' = PhonemeReplace(phoneme, feature1, feature2, TRUE)
  /\ UNCHANGED <<pc, ovars>>

set_place ==
  /\ pc = "phoneme"
  /\ \E feature \in MutatorArguments :
       /\ phoneme' = PhonemeSetPlace(phoneme, feature, TRUE)
  /\ UNCHANGED <<pc, ovars>>

advance ==
  /\ pc = "phoneme"
  /\ Mutated(PhonemeAdvance(phoneme, TRUE))
  /\ UNCHANGED ovars

lower ==
  /\ pc = "phoneme"
  /\ Mutated(PhonemeLower(phoneme, TRUE))
  /\ UNCHANGED ovars

upper ==
  /\ pc = "phoneme"
  /\ Mutated(PhonemeUpper(phoneme, TRUE))
  /\ UNCHANGED ovars

dentalize ==
  /\ pc = "phoneme"
  /\ Mutated(PhonemeDentalize(phoneme, TRUE))
  /\ UNCHANGED ovars

NextPhoneme ==
  \/ add
  \/ remove
  \/ replace
  \/ set_place
  \/ advance
  \/ lower
  \/ upper
  \/ dentalize

SpecPhoneme == InitPhoneme /\ [][NextPhoneme]_vars

\* C19: after any sequence of the mutators add, remove, replace, set_place,
\* advance, lower, upper and dentalize that have returned, the phoneme's
\* categories, its per-category lists and primaries, and its name are those
\* derived from its current feature set.
C19_DerivedAttributesMatchFeatures ==
  pc = "phoneme" =>
    /\ phoneme.categories = SortedCategories(phoneme.features)
    /\ phoneme = Redefine(phoneme)

\* ============================================================= IPA parser
\* Longest IPA string handed to ipa_string_to_lexeme
MaxIpaLen == 3

\* The characters of the strings: one that is replaced, three letters, a
\* modifier, an ignored symbol and a character of none of the tables
IpaCharacters == {"T", "t", "k", "d", "+", "-", "?"}

IpaStrings == SeqsUpTo(IpaCharacters, MaxIpaLen)

InitParse ==
  /\ pc = "ipa_string"
  /\ \E ipa_string \in IpaStrings : call = [fn |-> "", args |-> <<>>, result |-> ipa_string]
  /\ afdm = EmptyDict
  /\ pdm = None
  /\ catalogue = <<>>
  /\ phoneme = None
  /\ NoTreeYet

pvars == <<afdm, pdm, catalogue, phoneme, tvars>>

\* parser.py line 62
ReplaceNonIpa ==
  /\ pc = "ipa_string"
  /\ call' = [fn |-> "replace_non_ipa", args |-> <<call.result>>,
              result |-> replace_non_ipa(call.result)]
  /\ pc' = "ipa_chars"
  /\ UNCHANGED pvars

\* line 63: the ValueError leaves ipa_string_to_lexeme
GroupWithModifiers ==
  /\ pc = "ipa_chars"
  /\ call' = [fn |-> "group_with_modifiers", args |-> <<call.result>>,
              result |-> group_with_modifiers(call.result)]
  /\ pc' = IF group_with_modifiers(call.result).raised THEN "error" ELSE "ipa_symbols"
  /\ UNCHANGED pvars

\* line 64
GroupSinglePhonemeSymbols ==
  /\ pc = "ipa_symbols"
  /\ call' = [fn |-> "group_single_phoneme_symbols", args |-> <<call.result.symbols>>,
              result |-> group_single_phoneme_symbols(call.result.symbols)]
  /\ pc' = "ipa_gathered_symbols"
  /\ UNCHANGED pvars

\* lines 65-71: the list of phonemes, or None after a KeyError
SymbolsToPhonemes ==
  /\ pc = "ipa_gathered_symbols"
  /\ \E converted \in {[k \in DOMAIN call.result |-> symbol_to_phoneme(call.result[k])]} :
       /\ call' = [fn |-> "symbol_to_phoneme", args |-> <<call.result>>, result |-> converted]
       /\ pc' = IF \E k \in DOMAIN converted : converted[k].raised THEN "none" ELSE "lexeme"
  /\ UNCHANGED pvars

NextParse ==
  \/ ReplaceNonIpa
  \/ GroupWithModifiers
  \/ GroupSinglePhonemeSymbols
  \/ SymbolsToPhonemes

SpecParse == InitParse /\ [][NextParse]_vars

\* A character of the letters, of the modifiers or of the ignored symbols
Recognized(char) == char \in (DOMAIN letters) \cup (DOMAIN modifiers) \cup ignore

\* C17: group_with_modifiers fails for a sequence of characters if and only
\* if the sequence holds a character that is neither a letter nor a modifier
\* nor an ignored symbol, wherever the modifiers stand.
C17_FailsIffUnrecognizedCharacter ==
  LastCallIs("group_with_modifiers") =>
    (call.result.raised <=> \E k \in DOMAIN call.args[1] : ~Recognized(call.args[1][k]))

\* ------------------------------------------------------------------- main
\* main() up to construct_tree: construct_languages on a catalogue, the phoneme
\* distance matrix of the phonemes found, the language distance matrix, the tree.

\* min_words of main
MinWords == 205

\* Largest number of catalogue rows
MaxRows == 2

\* The oracle of a run of main: total over the features of the catalogue's
\* letters, not symmetric
MainOracle ==
  [p \in {<<"AL", "AL">>, <<"PA", "PA">>, <<"X", "X">>, <<"AL", "PA">>, <<"PA", "AL">>,
          <<"AL", "X">>, <<"PA", "X">>, <<"X", "AL">>, <<"X", "PA">>} |->
     CASE p[1] = p[2]       -> 0
       [] p = <<"AL", "PA">> -> 1
       [] p = <<"PA", "AL">> -> 2
       [] p = <<"AL", "X">>  -> 2
       [] OTHER              -> 3]

\* The cells of the first meaning column: empty, two words, a word with a
\* character of no table (ValueError), a word whose modifier has no rule for
\* the letter (KeyError); the cells of the second: empty and two words
FirstCells == {<<>>, <<"t">>, <<"k">>, <<"?">>, <<"d", "+">>}

SecondCells == {<<>>, <<"t">>, <<"k">>}

\* Row k of a catalogue: a row that line 19 or line 22 drops (no Code, or '#'
\* not above min_words), whose cells are never read, or a row that is kept
RowsAt(k) ==
  {[Code |-> kind[1], Language |-> LeafCode(k), count |-> kind[2],
    cells |-> [m \in {"one", "two"} |-> <<"t">>]] :
     kind \in {<<NullCode, MinWords + 1>>, <<LeafCode(k), MinWords>>}}
  \cup
  {[Code |-> LeafCode(k), Language |-> LeafCode(k), count |-> MinWords + 1,
    cells |-> [m \in {"one", "two"} |-> IF m = "one" THEN c1 ELSE c2]] :
     c1 \in FirstCells, c2 \in SecondCells}

RECURSIVE CataloguesOf(_)
CataloguesOf(N) ==
  IF N = 0 THEN {<<>>}
  ELSE {Append(rows, row) : rows \in CataloguesOf(N - 1), row \in RowsAt(N)}

Catalogues == UNION {CataloguesOf(N) : N \in 0..MaxRows}

InitMain ==
  /\ pc = "catalogue"
  /\ catalogue \in Catalogues
  /\ afdm = MainOracle
  /\ pdm = None
  /\ phoneme = None
  /\ call = NoCall
  /\ NoTreeYet

Raising(fn, exception) == [fn |-> fn, args |-> <<>>, result |-> exception]

Returning(fn) == [fn |-> fn, args |-> <<>>, result |-> "returned"]

\* main.py line 12
ConstructLanguages ==
  /\ pc = "catalogue"
  /\ \E r \in {construct_languages(catalogue, MinWords)} :
       IF r.raised
         THEN /\ pc' = "error"
              /\ call' = Raising("construct_languages", "AttributeError")
              /\ UNCHANGED <<lang, languages>>
         ELSE /\ pc' = "languages"
              /\ call' = Returning("construct_languages")
              /\ lang' = r.languages
              /\ languages' = [k \in DOMAIN r.languages |-> k]
  /\ UNCHANGED <<afdm, catalogue, phoneme, pdm, ldm, language_codes, n, delta, d,
                 ij_language, i, j, edge, tree, stack>>

\* main.py line 13
ConstructPhonemeDistanceMatrix ==
  /\ pc = "languages"
  /\ \E r \in {construct_phoneme_distance_matrix(Sorted(PhonemesOfLanguages(lang)),
                                                 afdm, FALSE)} :
       IF r.raised
         THEN /\ pc' = "error"
              /\ call' = Raising("construct_phoneme_distance_matrix", "UnsolvableMatrix")
              /\ pdm' = pdm
         ELSE /\ pc' = "pdm"
              /\ call' = Returning("construct_phoneme_distance_matrix")
              /\ pdm' = r.matrix
  /\ UNCHANGED <<afdm, catalogue, phoneme, tvars>>

\* main.py line 14
ConstructLanguageDistanceMatrix ==
  /\ pc = "pdm"
  /\ \E r \in {construct_language_distance_matrix(lang, languages, pdm)} :
       IF r.raised
         THEN /\ pc' = "error"
              /\ call' = Raising("construct_language_distance_matrix", "ZeroDivisionError")
              /\ ldm' = ldm
         ELSE /\ pc' = "ldm"
              /\ call' = Returning("construct_language_distance_matrix")
              /\ ldm' = r.matrix
  /\ UNCHANGED <<afdm, catalogue, phoneme, pdm, language_codes, languages, n, delta, d,
                 ij_language, i, j, lang, edge, tree, stack>>

\* main.py line 15
ConstructTree ==
  /\ pc = "ldm"
  /\ \E r \in {RunConstructTree(Frame0(ldm, lang, edge))} :
       /\ SetFrame(r.frame)
       /\ IF r.raised
            THEN /\ pc' = "error"
                 /\ call' = Raising("construct_tree", "ValueError")
                 /\ tree' = tree
            ELSE /\ pc' = "tree"
                 /\ call' = Returning("construct_tree")
                 /\ tree' = IF r.frame.ij_language # None
                              THEN Tree(r.frame.L, r.frame.E, r.frame.ij_language)
                              ELSE NoTree
  /\ UNCHANGED <<afdm, catalogue, phoneme, pdm, ldm, stack>>

NextMain ==
  \/ ConstructLanguages
  \/ ConstructPhonemeDistanceMatrix
  \/ ConstructLanguageDistanceMatrix
  \/ ConstructTree

SpecMain == InitMain /\ [][NextMain]_vars

\* The Language objects that construct_languages returned: the languages of
\* the heap with no children
LeafLanguages == {l \in DOMAIN lang : IsLeaf(lang, l)}

\* Two of them, or one taken twice, with no meaning in common
NoSharedMeaning(a, b) == LanguageAnd(lang[a], lang[b]) = {}

\* C15: when two languages share no meaning, their distance is not a finite
\* number: the construction of the language distance matrix raises, so no
\* matrix, no edge and no tree is ever made from such a pair.
C15_NoSharedMeaningIsNeverAFiniteDistance ==
  (\E a \in LeafLanguages, b \in LeafLanguages : NoSharedMeaning(a, b)) =>
    /\ pc \notin {"ldm", "tree"}
    /\ edge = <<>>
    /\ tree = NoTree
    /\ (call.fn = "construct_language_distance_matrix" => call.result = "ZeroDivisionError")

C15_Witness ==
  /\ pc = "error"
  /\ call = Raising("construct_language_distance_matrix", "ZeroDivisionError")
  /\ \E a \in LeafLanguages, b \in LeafLanguages :
       /\ a # b
       /\ NoSharedMeaning(a, b)
       /\ lang[a].lexemes # <<>>
       /\ lang[b].lexemes # <<>>

\* The lexemes of a row that parse: the cells that are not empty and for which
\* ipa_string_to_lexeme returns a Lexeme
RECURSIVE ParsedLexemes(_, _)
ParsedLexemes(row, k) ==
  IF k > Len(MeaningColumns) THEN <<>>
  ELSE LET meaning == MeaningColumns[k]
           parsed  == ipa_string_to_lexeme(row.cells[meaning], meaning, row.Code)
       IN  IF Len(row.cells[meaning]) = 0 \/ parsed.raised \/ parsed.lexeme.cls # "Lexeme"
             THEN ParsedLexemes(row, k + 1)
             ELSE <<parsed.lexeme>> \o ParsedLexemes(row, k + 1)

\* C16: a cell that fails to parse costs only its own lexeme: construct_languages
\* returns, with one Language per kept row, made of the row's other lexemes.
C16_FailedCellOmitsOnlyItsLexeme ==
  call.fn = "construct_languages" =>
    /\ call.result = "returned"
    /\ LET kept == KeptRows(catalogue, MinWords)
       IN  /\ Len(lang) = Len(kept)
           /\ \A k \in DOMAIN kept : lang[k].lexemes = ParsedLexemes(kept[k], 1)

\* C18: every Language handed to construct_language_distance_matrix and to
\* construct_tree has at least one lexeme.
C18_NoEmptyLanguageReachesTheMatrix ==
  pc \in {"pdm", "ldm"} => \A l \in LeafLanguages : lang[l].lexemes # <<>>

\* ------------------------------------------------- the lexemes of the tree
\* The Lexemes a Language contains, directly or inside a Synonyms
LexemesOf(l) ==
  UNION {IF IsSynonyms(l.lexemes[x])
           THEN {l.lexemes[x].lexemes[y] : y \in DOMAIN l.lexemes[x].lexemes}
           ELSE {l.lexemes[x]} : x \in DOMAIN l.lexemes}

\* C20: once reconstruct_protolanguages has returned, every Lexeme of every
\* Language of the tree carries the code of the Language that contains it.
C20_LexemesCarryTheCodeOfTheirLanguage ==
  pc = "reconstructed" =>
    \A l \in DOMAIN lang : \A lexeme \in LexemesOf(lang[l]) : lexeme.language_code = lang[l].code

\* -------------------------------------------------------------------- Tree
\* Tree(root_language) for any Language the heap holds once construct_tree is
\* over: the returned root, an inner node, a leaf, a language left out
BuildTree ==
  /\ pc \in {"done", "error"}
  /\ \E root_language \in DOMAIN lang : tree' = Tree(lang, edge, root_language)
  /\ pc' = "tree"
  /\ UNCHANGED <<ldm, language_codes, languages, n, delta, d, ij_language, i, j,
                 lang, edge, pdm, stack, dvars>>

NextTree == JoinStep \/ JoinRaise \/ ReturnTree \/ BuildTree

SpecTree == Init /\ [][NextTree]_vars

\* C21: the leaves of a Tree are the Languages without child edges that are
\* reachable from its root, the root included.
C21_LeavesAreTheChildlessReachable ==
  pc = "tree" => tree.leaves = {l \in Reachable(tree.root) : lang[l].child_edges = <<>>}

\* C22: every Edge construct_tree creates carries a distance >= 0.
C22_EdgeDistancesAreNonNegative ==
  \A e \in DOMAIN edge : ~RLt(edge[e].distance, RZero)

\* The number of passes of the while loop so far: each pass creates two edges
Iterations == Len(edge) \div 2

\* C23: for n >= 2 input languages every pass of the loop of construct_tree
\* takes the number of working languages down by one, and the loop ends after
\* n - 1 passes with one working language, the root of the returned Tree.
C23_LoopEndsAfterNMinusOnePasses ==
  NInput >= 2 =>
    /\ n = NInput - Iterations
    /\ Len(languages) = n
    /\ Ended => /\ Returned
                /\ Iterations = NInput - 1
                /\ tree # NoTree
                /\ languages = <<tree.root>>

\* ---------------------------------------------------------------- Language
\* One Language object under its list operations.

\* Largest number of entries of the language
MaxEntries == 2

\* The entries written: three meanings, two words each
Entries ==
  {Lexeme(<<p>>, meaning, <<1>>) : p \in {PhonemeOf({"AL"}), PhonemeOf({"PA"})},
                                   meaning \in {"one", "two", "three"}}

MeaningsOf(lexemes) == {lexemes[x].meaning : x \in DOMAIN lexemes}

\* The lists of entries, no meaning twice
EntryLists ==
  {lexemes \in SeqsUpTo(Entries, MaxEntries) :
     Cardinality(MeaningsOf(lexemes)) = Len(lexemes)}

TheLanguage == lang[1]

InitLanguage ==
  /\ pc = "language"
  /\ \E lexemes \in EntryLists : lang = <<Language(LeafCode(1), LeafCode(1), lexemes)>>
  /\ ldm = LanguageMatrix(0, <<>>)
  /\ language_codes = <<>>
  /\ languages = <<>>
  /\ n = 0
  /\ delta = EmptyDict
  /\ d = <<>>
  /\ ij_language = None
  /\ i = None
  /\ j = None
  /\ edge = <<>>
  /\ tree = NoTree
  /\ stack = <<>>
  /\ pdm = None
  /\ NotInUse

lvars == <<pc, ldm, language_codes, languages, n, delta, d, ij_language, i, j, edge, tree,
           stack, pdm, afdm, catalogue, phoneme>>

\* The call just made on the language `before`
Called(fn, before, index, item) ==
  call' = [fn |-> fn, args |-> <<before, index, item>>, result |-> None]

\* language[index] = item with an int index: the item keeps the meaning of the
\* entry it replaces or brings a meaning the list does not hold
SetItemByIndex ==
  /\ pc = "language"
  /\ \E index \in DOMAIN TheLanguage.lexemes, item \in Entries :
       /\ item.meaning \notin MeaningsOf(TheLanguage.lexemes) \ {TheLanguage.lexemes[index].meaning}
       /\ lang' = <<SetItemInt(TheLanguage, index, item)>>
       /\ Called("__setitem__(int)", TheLanguage, index, item)
  /\ UNCHANGED lvars

\* language[meaning] = item with a str index, the item's own meaning
SetItemByMeaning ==
  /\ pc = "language"
  /\ \E item \in Entries :
       /\ item.meaning \in MeaningsOf(TheLanguage.lexemes) \/ Len(TheLanguage.lexemes) < MaxEntries
       /\ lang' = <<SetItem(TheLanguage, item.meaning, item)>>
       /\ Called("__setitem__(str)", TheLanguage, item.meaning, item)
  /\ UNCHANGED lvars

\* del language[index]
DeleteItem ==
  /\ pc = "language"
  /\ \E index \in DOMAIN TheLanguage.lexemes :
       /\ lang' = <<DelItem(TheLanguage, index)>>
       /\ Called("__delitem__", TheLanguage, index, None)
  /\ UNCHANGED lvars

\* language.insert(index, item), a meaning the list does not hold
InsertItem ==
  /\ pc = "language"
  /\ Len(TheLanguage.lexemes) < MaxEntries
  /\ \E index \in 1..(Len(TheLanguage.lexemes) + 1), item \in Entries :
       /\ item.meaning \notin MeaningsOf(TheLanguage.lexemes)
       /\ lang' = <<LanguageInsert(TheLanguage, index, item)>>
       /\ Called("insert", TheLanguage, index, item)
  /\ UNCHANGED lvars

\* language.append(item), a meaning the list does not hold
AppendItem ==
  /\ pc = "language"
  /\ Len(TheLanguage.lexemes) < MaxEntries
  /\ \E item \in Entries :
       /\ item.meaning \notin MeaningsOf(TheLanguage.lexemes)
       /\ lang' = <<LanguageAppend(TheLanguage, item)>>
       /\ Called("append", TheLanguage, None, item)
  /\ UNCHANGED lvars

NextLanguage == SetItemByIndex \/ SetItemByMeaning \/ DeleteItem \/ InsertItem \/ AppendItem

SpecLanguage == InitLanguage /\ [][NextLanguage]_vars

\* The two dicts say what the list says
DictsReflectList(l) ==
  /\ DOMAIN l.lexemes_dict = MeaningsOf(l.lexemes)
  /\ DOMAIN l.lexeme_index_dict = MeaningsOf(l.lexemes)
  /\ \A x \in DOMAIN l.lexemes :
       /\ l.lexemes_dict[l.lexemes[x].meaning] = l.lexemes[x]
       /\ l.lexeme_index_dict[l.lexemes[x].meaning] = x

\* The last call wrote an item at a meaning
WroteAtMeaning == call.fn = "__setitem__(str)"

\* C24: after any sequence of __setitem__, __delitem__, insert and append the
\* two dicts of a Language map exactly the meanings of the list to the
\* entries and to their positions; a write at a meaning the list holds keeps
\* position and length, a write at a new meaning appends.
C24_DictsFollowTheList ==
  pc = "language" =>
    /\ DictsReflectList(TheLanguage)
    /\ WroteAtMeaning =>
         LET before == call.args[1].lexemes
             item   == call.args[3]
         IN  IF item.meaning \in MeaningsOf(before)
               THEN /\ Len(TheLanguage.lexemes) = Len(before)
                    /\ \A x \in DOMAIN before :
                         TheLanguage.lexemes[x] = IF before[x].meaning = item.meaning
                                                    THEN item ELSE before[x]
               ELSE TheLanguage.lexemes = Append(before, item)

\* ------------------------------------------- the order of reconstruct_language
Internal(l) == lang[l].child_edges # <<>>

ChildrenOf(l) == GetChildLanguages(lang, edge, l)

\* What a finished call leaves at an internal node: the meanings both of its
\* children hold
Reconstructed(l) ==
  DOMAIN lang[l].lexemes_dict = LanguageAnd(lang[ChildrenOf(l)[1]], lang[ChildrenOf(l)[2]])

\* C25: reconstruct_language works in post-order. A call is only ever made on
\* a child without lexemes of the caller's node; while a call is still in its
\* recursion loop its node has no vocabulary; once it is in the loop over the
\* meanings every internal child of its node is finished; and when the call
\* on the root has returned every internal node of the tree is.
C25_PostOrder ==
  /\ \A x \in DOMAIN stack :
       /\ x > 1 => \E c \in DOMAIN ChildrenOf(stack[x - 1].root) :
                      ChildrenOf(stack[x - 1].root)[c] = stack[x].root
       /\ stack[x].stage = "recursion" => lang[stack[x].root].lexemes = <<>>
       /\ (pc = "reconstruct" /\ stack[x].stage = "loop") =>
            \A c \in DOMAIN ChildrenOf(stack[x].root) :
              Internal(ChildrenOf(stack[x].root)[c]) => Reconstructed(ChildrenOf(stack[x].root)[c])
  /\ pc = "reconstructed" => \A l \in Reachable(tree.root) : Internal(l) => Reconstructed(l)

\* The call on the root is in its loop over the meanings, and an internal
\* child of the root has been given a vocabulary by its own call
C25_Witness ==
  /\ pc = "reconstruct"
  /\ Len(stack) = 1
  /\ Top.stage = "loop"
  /\ \E c \in DOMAIN TopChildren :
       /\ Internal(TopChildren[c])
       /\ lang[TopChildren[c]].lexemes # <<>>

\* ------------------------------------------- the assignment behind a distance
\* p - q padded with one empty feature for each feature of q - p
Padded(p, q) ==
  ListOf(PhonemeSub(p, q)) \o Repeat(empty_feature, Cardinality(PhonemeSub(q, p)))

\* The bijections between two padded lists that use only pairs of the oracle
Permitted(list1, list2) ==
  {b \in Assignments(Len(list1)) :
     \A r \in DOMAIN list1 : <<list1[r], list2[b[r]]>> \in DOMAIN afdm}

BijectionCost(list1, list2, b) ==
  SumSeq([r \in DOMAIN list1 |-> afdm[<<list1[r], list2[b[r]]>>]])

\* C26: for p # q, calculate_phoneme_distance(p, q) is the least summed oracle
\* distance over the bijections between the two padded lists that use no pair
\* absent from the oracle; with no such bijection the call raises.
C26_DistanceIsTheLeastPermittedBijection ==
  (LastCallIs("calculate_phoneme_distance") /\ call.args[1] # call.args[2]) =>
    LET list1 == Padded(call.args[1], call.args[2])
        list2 == Padded(call.args[2], call.args[1])
        bijections == Permitted(list1, list2)
    IN  IF bijections = {} THEN call.result.raised
        ELSE /\ ~call.result.raised
             /\ \E b \in bijections : call.result.value = BijectionCost(list1, list2, b)
             /\ \A b \in bijections : call.result.value <= BijectionCost(list1, list2, b)

\* Two single-feature phonemes were measured where substituting the feature
\* is cheaper than deleting one and inserting the other, both being permitted
C26_Witness ==
  /\ LastCallIs("calculate_phoneme_distance")
  /\ call.args = <<PhonemeOf({"AL"}), PhonemeOf({"PA"})>>
  /\ {<<"AL", "PA">>, <<empty_feature, empty_feature>>, <<"AL", empty_feature>>,
      <<empty_feature, "PA">>} \subseteq DOMAIN afdm
  /\ afdm[<<"AL", "PA">>] + afdm[<<empty_feature, empty_feature>>]
       < afdm[<<"AL", empty_feature>>] + afdm[<<empty_feature, "PA">>]
  /\ call.result = [raised |-> FALSE,
                    value |-> afdm[<<"AL", "PA">>] + afdm[<<empty_feature, empty_feature>>]]

\* C27: the pair (i, j) selected in a pass of the loop of construct_tree has
\* i # j.
C27_SelectedPairIsOffDiagonal ==
  i # None => i # j

\* -------------------------------------------- the working lists and matrix
\* The position of the language l in the working list
PositionOf(l) == CHOOSE k \in DOMAIN languages : languages[k] = l

\* d is n x n, the two lists have n entries, and the k-th code is the code of
\* the k-th language
Aligned ==
  /\ n = Len(language_codes)
  /\ n = Len(languages)
  /\ Len(d) = n
  /\ \A r \in DOMAIN d : Len(d[r]) = n
  /\ \A k \in DOMAIN languages : language_codes[k] = lang[languages[k]].code

\* What a join leaves: the new parent last in both lists, the joined entries
\* gone, every other language with the distances it had, and the last row and
\* column holding the distances of line 58
JoinedInPlace ==
  /\ languages'[Len(languages')] = ij_language'
  /\ language_codes'[Len(language_codes')] = lang'[ij_language'].code
  /\ \A k \in DOMAIN languages' : languages'[k] \notin {languages[i'], languages[j']}
  /\ {languages'[k] : k \in DOMAIN languages'} =
       ({languages[k] : k \in DOMAIN languages} \ {languages[i'], languages[j']})
         \cup {ij_language'}
  /\ Len(d') = Len(languages')
  /\ \A r \in DOMAIN d' : Len(d'[r]) = Len(languages')
  /\ \A r \in 1..(Len(languages') - 1), c \in 1..(Len(languages') - 1) :
       d'[r][c] = d[PositionOf(languages'[r])][PositionOf(languages'[c])]
  /\ \A r \in 1..(Len(languages') - 1) :
       LET k == PositionOf(languages'[r])
           to_ij == RDivInt(RSub(RAdd(d[i'][k], d[j'][k]), d[i'][j']), 2)
       IN  d'[r][Len(languages')] = to_ij /\ d'[Len(languages')][r] = to_ij
  /\ d'[Len(languages')][Len(languages')] = RZero

\* C28: at the start of every pass of the loop of construct_tree d is n x n
\* with n the length of both lists, row and column k belonging to the k-th
\* working language; a join puts the new parent last in the lists and in d
\* and takes the two joined entries out of all three.
C28_ListsAndMatrixStayAligned ==
  /\ [](pc = "loop" => Aligned)
  /\ [][Len(edge') = Len(edge) + 2 => JoinedInPlace]_vars

\* ------------------------------------------ what reconstruction leaves alone
\* The meanings of the entries of l, position by position
MeaningList(l) == [x \in DOMAIN l.lexemes |-> l.lexemes[x].meaning]

\* C29: no step of reconstruct_language adds, removes or changes an Edge, a
\* parent_edge, a child_edges list, a name or a code; at a leaf the meanings
\* stay as they are, position by position: only the entry stored at a meaning
\* the leaf already holds may change.
C29_ReconstructionFrame ==
  [][/\ edge' = edge
     /\ Len(lang') = Len(lang)
     /\ \A l \in DOMAIN lang :
          /\ lang'[l].name = lang[l].name
          /\ lang'[l].code = lang[l].code
          /\ lang'[l].parent_edge = lang[l].parent_edge
          /\ lang'[l].child_edges = lang[l].child_edges
          /\ IsLeaf(lang, l) =>
               /\ MeaningList(lang'[l]) = MeaningList(lang[l])
               /\ DOMAIN lang'[l].lexemes_dict = DOMAIN lang[l].lexemes_dict
               /\ DOMAIN lang'[l].lexeme_index_dict = DOMAIN lang[l].lexeme_index_dict]_vars

\* A merge has replaced the Synonyms entry of a leaf by the proto-lexeme
C29_Witness ==
  /\ pc = "reconstruct"
  /\ stack # <<>>
  /\ Top.branch = "merge"
  /\ \E l \in DOMAIN lang :
       /\ IsLeaf(lang, l)
       /\ Top.key_word \in DOMAIN lang[l].lexemes_dict
       /\ lang[l].lexemes_dict[Top.key_word] = Top.proto_lexeme
       /\ tree.root # Top.root \/ Len(lang[l].lexemes) = 2

\* ------------------------------------------- the order of the shared meanings
\* The meaning-to-entry mapping of every language of the heap L
Mapping(L) == [l \in DOMAIN L |-> L[l].lexemes_dict]

\* One pass of the loop of the running call, for key_word, on the heap L
PassOn(L, key_word) ==
  KeyWordPass(L, edge, pdm, Top.root, Top.language_distance, Threshold, key_word)

\* The entry of language l at meaning m in the heap L, or nothing
EntryIn(L, l, m) ==
  IF m \in DOMAIN L[l].lexemes_dict THEN <<L[l].lexemes_dict[m]>> ELSE <<>>

\* C30: whenever two meanings are still to be handled by the loop of a call,
\* handling them in either order leaves the same meaning-to-entry mapping at
\* every language; the pass for one meaning leaves the entries of every other
\* meaning as they were, and does the same whether or not the other meaning
\* was handled before it.
C30_OrderOfMeaningsIsImmaterial ==
  (pc = "reconstruct" /\ stack # <<>> /\ Top.stage = "loop") =>
    \A a \in Top.todo : \A b \in Top.todo \ {a} :
      LET ra == PassOn(lang, a)
          rb == PassOn(lang, b)
          rab == PassOn(ra.L, b)
          rba == PassOn(rb.L, a)
      IN  /\ rba.raised = ra.raised
          /\ rba.branch = ra.branch
          /\ \A l \in DOMAIN lang :
               /\ EntryIn(rba.L, l, a) = EntryIn(ra.L, l, a)
               /\ \A m \in (DOMAIN lang[l].lexemes_dict \cup DOMAIN ra.L[l].lexemes_dict) \ {a} :
                    EntryIn(ra.L, l, m) = EntryIn(lang, l, m)
          /\ (~ra.raised /\ ~rb.raised) => Mapping(rab.L) = Mapping(rba.L)

\* Two meanings are still to be handled; the pass for one of them merges and
\* replaces an entry of a child, the pass for the other writes as well
C30_Witness ==
  /\ pc = "reconstruct"
  /\ stack # <<>>
  /\ Top.stage = "loop"
  /\ \E a \in Top.todo : \E b \in Top.todo \ {a} :
       /\ ~PassOn(lang, a).raised
       /\ ~PassOn(lang, b).raised
       /\ PassOn(lang, a).branch = "merge"
       /\ PassOn(lang, b).branch \in {"merge", "union"}
       /\ \E k \in 1..2 : PassOn(lang, a).L[TopChildren[k]] # lang[TopChildren[k]]

====
